---- MODULE Spec2Model ----
(***************************************************************************)
(* Multi-tenant isolation and provisioning core of the compliance          *)
(* platform: the tenant context (core/database_router.py), the connection  *)
(* router, the tenant middleware (core/middleware.py), the provisioning    *)
(* state machine (tenant_management/tenant_utils.py, views.py,             *)
(* serializers.py) and the framework distribution engine                   *)
(* (templates_host/distribution_utils.py).                                 *)
(*                                                                         *)
(* Tenant slugs are sequences of characters, so that the identifier        *)
(* pattern ^[a-z0-9-]{3,50}$ is computed and not assumed.  Python's None   *)
(* and the empty string are both falsy and are both the empty sequence.    *)
(***************************************************************************)
EXTENDS Integers, Sequences, FiniteSets, TLC

VARIABLES
    \* --- nested tenant_context scopes on one thread (database_router.py)
    sc_cv,        \* the ContextVar _tenant_context
    sc_tl,        \* _thread_locals.tenant
    sc_rq,        \* tenant_slug of the request object on the call stack
    sc_stack,     \* the open tenant_context scopes, innermost last
    sc_raising,   \* an exception is propagating out of a scope body
    sc_last       \* the last scope operation, for the scoping properties

scopeVars == <<sc_cv, sc_tl, sc_rq, sc_stack, sc_raising, sc_last>>

VARIABLES
    \* --- worker threads serving requests (middleware.py, database_router.py)
    th_cv,        \* the ContextVar _tenant_context, per thread
    th_tl,        \* _thread_locals.tenant, per thread
    th_pc,        \* where each thread is in its request
    th_req,       \* the request a thread serves, or served last
    th_status,    \* the HTTP status of the response (0: none yet)
    th_how,       \* how the response came about
    th_set,       \* the tenants this request passed to set_current_tenant
    last_get,     \* the last call of get_current_tenant by a view, and its thread
    last_read,    \* the last tenant-scoped read by a view
    databases,    \* connections.databases: the registered tenant connections
    tables,       \* the schemas that hold the tenant-scoped tables
    store,        \* the rows of the tenant-scoped tables, per schema
    next_id,      \* the next primary key
    tenant        \* the tenant registry: TenantDatabaseInfo rows by slug

threadVars == <<th_cv, th_tl, th_pc, th_req, th_status, th_how, th_set, last_get,
                last_read>>
storeVars == <<databases, tables, store, next_id>>

\* ------------------------------------------------------------------------
\* Identifiers
\* ------------------------------------------------------------------------

None == <<>>

\* the character class [a-z0-9-] of the identifier pattern
SlugChars ==
    {"a","b","c","d","e","f","g","h","i","j","k","l","m","n","o","p","q",
     "r","s","t","u","v","w","x","y","z","0","1","2","3","4","5","6","7",
     "8","9","-"}

SlugMinLen == 3
SlugMaxLen == 50

\* re.match(r'^[a-z0-9-]{3,50}$', tenant_slug)
SlugFormatOk(s) ==
    /\ Len(s) >= SlugMinLen
    /\ Len(s) <= SlugMaxLen
    /\ \A i \in 1..Len(s) : s[i] \in SlugChars

Acme == <<"a","c","m","e">>
Beta == <<"b","e","t","-","1">>
Ghost == <<"g","h","o","s","t">>
BadCase == <<"A","c","m","e">>
TooShort == <<"a","b">>

\* tenants that can have a record in the registry
Slugs == {Acme, Beta}

\* identifiers a caller can pass: registered, unknown and ill-formed ones
SlugInputs == Slugs \cup {Ghost, BadCase, TooShort}

\* ------------------------------------------------------------------------
\* TenantContext: core/database_router.py
\* A context is the triple of places get_current_tenant looks at, in order:
\* the ContextVar, the thread-local fallback, and tenant_slug of a request
\* object found on the call stack.
\* ------------------------------------------------------------------------

\* get_current_tenant(): first truthy of ContextVar, thread-local, request
get_current_tenant(cv, tl, rq) ==
    IF cv # None THEN cv
    ELSE IF tl # None THEN tl
    ELSE rq

\* set_current_tenant(slug): returned flag
set_current_tenant_ok(slug) == slug # None /\ SlugFormatOk(slug)

\* set_current_tenant(slug): the ContextVar and the thread-local afterwards
set_current_tenant(cv, tl, slug) ==
    IF set_current_tenant_ok(slug)
    THEN [cv |-> slug, tl |-> slug]
    ELSE [cv |-> cv, tl |-> tl]

\* clear_current_tenant(): the ContextVar and the thread-local afterwards
clear_current_tenant(cv, tl) == [cv |-> None, tl |-> None]

\* ------------------------------------------------------------------------
\* tenant_context(slug): the context manager, one open scope per frame
\* ------------------------------------------------------------------------

\* deepest nesting of tenant_context scopes explored
MaxDepth == 2

\* tenant_context, entry: previous_tenant is read, then set_current_tenant
\* is tried; the frame remembers whether the context was switched
tenant_context_enter(cv, tl, rq, slug) ==
    [previous_tenant |-> get_current_tenant(cv, tl, rq),
     slug            |-> slug,
     switched        |-> set_current_tenant_ok(slug)]

\* a finally block that always clears and never restores previous_tenant
tenant_context_exit_clears(cv, tl, fr) ==
    IF fr.switched
    THEN clear_current_tenant(cv, tl)
    ELSE [cv |-> cv, tl |-> tl]

\* tenant_context, exit (the finally block of the switched branch; the
\* branch that did not switch has nothing to undo)
tenant_context_exit(cv, tl, fr) ==
    IF fr.switched
    THEN IF fr.previous_tenant # None
         THEN set_current_tenant(cv, tl, fr.previous_tenant)
         ELSE clear_current_tenant(cv, tl)
    ELSE [cv |-> cv, tl |-> tl]

NoScopeOp == [op |-> "none", frame |-> tenant_context_enter(None, None, None, None),
              depth |-> 0]

\* a thread as a unit of work finds it: nothing set, or one tenant set by
\* set_current_tenant (which writes both slots), with or without a request
\* carrying tenant_slug on the stack
ScopeInit ==
    /\ \E s \in Slugs \cup {None} : sc_cv = s /\ sc_tl = s
    /\ sc_rq \in Slugs \cup {None}
    /\ sc_stack = <<>>
    /\ sc_raising = FALSE
    /\ sc_last = NoScopeOp

\* with tenant_context(slug):
ScopeEnter(slug) ==
    /\ ~sc_raising
    /\ Len(sc_stack) < MaxDepth
    /\ LET fr == tenant_context_enter(sc_cv, sc_tl, sc_rq, slug)
           after == set_current_tenant(sc_cv, sc_tl, slug)
       IN /\ sc_stack' = Append(sc_stack, fr)
          /\ sc_cv' = after.cv
          /\ sc_tl' = after.tl
          /\ sc_last' = [op |-> "enter", frame |-> fr, depth |-> Len(sc_stack) + 1]
    /\ UNCHANGED <<sc_rq, sc_raising>>

\* the innermost scope is left, its body having returned (raised = FALSE)
\* or an exception leaving it (raised = TRUE)
ScopeLeave(raised) ==
    /\ Len(sc_stack) > 0
    /\ LET fr == sc_stack[Len(sc_stack)]
           after == tenant_context_exit(sc_cv, sc_tl, fr)
       IN /\ sc_stack' = SubSeq(sc_stack, 1, Len(sc_stack) - 1)
          /\ sc_cv' = after.cv
          /\ sc_tl' = after.tl
          /\ sc_last' = [op |-> IF raised THEN "raise" ELSE "return",
                         frame |-> fr, depth |-> Len(sc_stack)]
    /\ sc_raising' = raised
    /\ UNCHANGED sc_rq

\* the body of the innermost scope returns
ScopeBodyReturns ==
    /\ ~sc_raising
    /\ ScopeLeave(FALSE)

\* the body of the innermost scope raises, or an exception that left an
\* inner scope is not caught in this body and leaves this scope too
ScopeBodyRaises == ScopeLeave(TRUE)

\* the exception is caught in the enclosing body (or by the caller)
ScopeCatch ==
    /\ sc_raising
    /\ sc_raising' = FALSE
    /\ UNCHANGED <<sc_cv, sc_tl, sc_rq, sc_stack, sc_last>>

\* C4: when a scope entered with a valid id is left, by return or by an
\* exception, the current tenant is again what it was before that scope was
\* entered; for a scope nested directly inside another valid scope that is
\* the id of the enclosing scope.
C4_NestedScopeRestores ==
    [][ Len(sc_stack') = Len(sc_stack) - 1 =>
          LET fr  == sc_stack[Len(sc_stack)]
              now == get_current_tenant(sc_cv', sc_tl', sc_rq')
          IN fr.switched =>
               /\ now = fr.previous_tenant
               /\ (Len(sc_stack) >= 2 /\ sc_stack[Len(sc_stack) - 1].switched)
                     => now = sc_stack[Len(sc_stack) - 1].slug
      ]_scopeVars

\* an inner scope for one tenant was left by an exception inside an outer
\* scope for another tenant, which is current again
C4_Witness ==
    /\ sc_last.op = "raise"
    /\ sc_last.depth = 2
    /\ sc_last.frame.switched
    /\ Len(sc_stack) = 1
    /\ sc_stack[1].switched
    /\ sc_stack[1].slug # sc_last.frame.slug
    /\ get_current_tenant(sc_cv, sc_tl, sc_rq) = sc_stack[1].slug

\* C24: a scope entered with an id that set_current_tenant rejects runs
\* its body with no current tenant, whatever was current before entry, and
\* when it is left the tenant that was current before entry is current.
C24_RejectedScopeRunsWithoutTenant ==
    (sc_rq = None /\ ~sc_last.frame.switched) =>
        /\ sc_last.op = "enter" =>
              get_current_tenant(sc_cv, sc_tl, sc_rq) = None
        /\ sc_last.op \in {"return", "raise"} =>
              get_current_tenant(sc_cv, sc_tl, sc_rq)
                = sc_last.frame.previous_tenant

\* ------------------------------------------------------------------------
\* Tenant registry rows: tenant_management/models.py, tenant_utils.py
\* ------------------------------------------------------------------------

\* no row for the slug
NoTenant ==
    [exists |-> FALSE, subscription_status |-> "", provisioning_status |-> "",
     is_active |-> FALSE, provisioning_error |-> "", plan |-> ""]

\* create_tenant_record: the row of a tenant awaiting payment
PendingTenant(plan) ==
    [exists |-> TRUE, subscription_status |-> "PENDING_PAYMENT",
     provisioning_status |-> "PENDING", is_active |-> FALSE,
     provisioning_error |-> "", plan |-> plan]

\* activate_tenant_with_framework, step 4.5: the row of an activated tenant
ActivatedTenant(row) ==
    [row EXCEPT !.subscription_status = "ACTIVE",
                !.provisioning_status = "ACTIVE",
                !.is_active = TRUE]

\* TenantViewSet.suspend: the row of a suspended tenant
SuspendedTenant(row) == [row EXCEPT !.subscription_status = "SUSPENDED"]

\* TenantViewSet.destroy: the row of a soft-deleted tenant
CancelledTenant(row) ==
    [row EXCEPT !.is_active = FALSE, !.subscription_status = "CANCELLED"]

\* ------------------------------------------------------------------------
\* Names of connections and schemas
\* ------------------------------------------------------------------------

\* 'default'
DefaultAlias == <<"d","e","f","a","u","l","t">>

\* '_compliance_db'
ConnSuffix == <<"_","c","o","m","p","l","i","a","n","c","e","_","d","b">>

\* '_schema'
SchemaSuffix == <<"_","s","c","h","e","m","a">>

\* 'public'
Public == <<"p","u","b","l","i","c">>

\* f"{tenant_slug}_compliance_db"
connection_name(slug) == slug \o ConnSuffix

\* f"{tenant_slug}_schema"
schema_name(slug) == slug \o SchemaSuffix

\* str.endswith
EndsWith(str, suffix) ==
    /\ Len(str) >= Len(suffix)
    /\ SubSeq(str, Len(str) - Len(suffix) + 1, Len(str)) = suffix

\* add_tenant_database_to_django: the entry put into connections.databases,
\* with the search_path pinned to the tenant's schema, then public
db_config(slug) ==
    [alias |-> connection_name(slug),
     search_path |-> <<schema_name(slug), Public>>]

\* settings.DATABASES['default']: the shared connection
default_db == [alias |-> DefaultAlias, search_path |-> <<Public>>]

\* ------------------------------------------------------------------------
\* ComplianceRouter: core/database_router.py
\* ------------------------------------------------------------------------

SystemApps ==
    {"templates_host", "tenant_management", "user_management", "auth",
     "contenttypes", "sessions", "admin"}

MigratableSystemApps == SystemApps \cup {"messages", "authtoken"}

AppLabels == MigratableSystemApps \cup {"company_compliance", "ai_reports"}

\* connection_name in connections.databases
Registered(dbs, alias) == \E d \in dbs : d.alias = alias

\* a router that, finding the tenant's connection missing, uses whichever
\* tenant connection is registered instead of the shared one
db_for_read_any(app_label, current, dbs) ==
    IF app_label \in SystemApps THEN DefaultAlias
    ELSE IF app_label = "company_compliance" /\ current # None
         THEN IF Registered(dbs, connection_name(current))
              THEN connection_name(current)
              ELSE IF dbs # {} THEN (CHOOSE d \in dbs : TRUE).alias
                   ELSE DefaultAlias
         ELSE DefaultAlias

\* ComplianceRouter.db_for_read(model): the alias for a model of app_label
\* when get_current_tenant() returns current
db_for_read(app_label, current, dbs) ==
    IF app_label \in SystemApps THEN DefaultAlias
    ELSE IF app_label = "company_compliance"
         THEN IF current # None
              THEN IF Registered(dbs, connection_name(current))
                   THEN connection_name(current)
                   ELSE DefaultAlias
              ELSE DefaultAlias
         ELSE DefaultAlias

\* a db_for_write that names the tenant's connection without looking it up
\* in connections.databases
db_for_write_unchecked(app_label, current, dbs) ==
    IF app_label = "company_compliance" /\ current # None
    THEN connection_name(current)
    ELSE DefaultAlias

\* ComplianceRouter.db_for_write
db_for_write(app_label, current, dbs) == db_for_read(app_label, current, dbs)

\* an allow_migrate that lets the tenant-scoped app migrate on every
\* connection but the shared one
allow_migrate_open(db, app_label) ==
    IF db = DefaultAlias THEN app_label \in MigratableSystemApps
    ELSE app_label = "company_compliance"

\* ComplianceRouter.allow_migrate(db, app_label)
allow_migrate(db, app_label) ==
    IF db = DefaultAlias THEN app_label \in MigratableSystemApps
    ELSE IF EndsWith(db, ConnSuffix) THEN app_label = "company_compliance"
    ELSE FALSE

\* connections[alias]: the configuration behind an alias
Connection(dbs, alias) ==
    IF alias = DefaultAlias THEN default_db
    ELSE CHOOSE d \in dbs : d.alias = alias

\* the schema an unqualified table name resolves to on a connection: the
\* first schema of its search_path that holds the table, None if none does
RECURSIVE ResolveSchema(_, _)
ResolveSchema(path, tbls) ==
    IF path = <<>> THEN None
    ELSE IF Head(path) \in tbls THEN Head(path)
    ELSE ResolveSchema(Tail(path), tbls)

\* the schemas a tenant-scoped table can live in
SchemaNames == {schema_name(s) : s \in Slugs} \cup {Public}

\* the tenant-scoped tables of a provisioned world: one set per provisioned
\* tenant, and in the shared schema only if migrations could put them there
TablesOf(reg) ==
    {schema_name(s) : s \in {x \in Slugs : reg[x].provisioning_status = "ACTIVE"}}
      \cup (IF allow_migrate(DefaultAlias, "company_compliance")
            THEN {Public} ELSE {})

\* ------------------------------------------------------------------------
\* TenantMiddleware: core/middleware.py
\* ------------------------------------------------------------------------

Www == <<"w","w","w">>

\* subdomains that never name a tenant
ReservedSubdomains ==
    {Www, <<"a","p","p">>, <<"a","p","i">>, <<"a","d","m","i","n">>,
     <<"l","o","c","a","l","h","o","s","t">>}

\* _extract_from_subdomain: the first label of the host, if it can be a slug
extract_from_subdomain(label) ==
    IF label # None /\ label \notin ReservedSubdomains /\ SlugFormatOk(label)
    THEN label ELSE None

\* _extract_from_path: the segment after /t/, if it can be a slug
extract_from_path(segment) ==
    IF segment # None /\ SlugFormatOk(segment) THEN segment ELSE None

\* re.match(r'^/admin/tenant/([a-z0-9-]+)/admin/', path)
AdminUrlMatches(url_slug) ==
    /\ Len(url_slug) >= 1
    /\ \A i \in 1..Len(url_slug) : url_slug[i] \in SlugChars

\* TenantDatabaseInfo.objects.get(tenant_slug=slug, is_active=True) finds a row
ActiveRow(reg, slug) ==
    /\ slug \in DOMAIN reg
    /\ reg[slug].exists
    /\ reg[slug].is_active

\* the outcome of process_request: the status of an early response (0: the
\* request goes on), the context slots and request.tenant_slug afterwards
Proceed(c, t) == [status |-> 0, cv |-> c, tl |-> t, tenant_slug |-> None]
Reject(code, c, t) == [status |-> code, cv |-> c, tl |-> t, tenant_slug |-> None]

\* TenantMiddleware._set_and_validate_tenant
set_and_validate_tenant(slug, reg, c, t) ==
    IF ~SlugFormatOk(slug) THEN Reject(400, c, t)
    ELSE IF ~ActiveRow(reg, slug) THEN Reject(404, c, t)
    ELSE IF reg[slug].subscription_status \notin {"ACTIVE", "PENDING_PAYMENT"}
         THEN Reject(403, c, t)
    ELSE IF ~set_current_tenant_ok(slug) THEN Reject(500, c, t)
    ELSE [status |-> 0,
          cv |-> set_current_tenant(c, t, slug).cv,
          tl |-> set_current_tenant(c, t, slug).tl,
          tenant_slug |-> slug]

\* the tenant identifier of a request: header, then subdomain, then path
candidate_slug(rq) ==
    IF rq.header # None THEN rq.header
    ELSE IF extract_from_subdomain(rq.subdomain) # None
         THEN extract_from_subdomain(rq.subdomain)
    ELSE extract_from_path(rq.path_slug)

\* TenantMiddleware.process_request
process_request(rq, reg, c, t) ==
    IF rq.kind = "tenant_admin" /\ AdminUrlMatches(rq.url_slug)
    THEN set_and_validate_tenant(rq.url_slug, reg, c, t)
    ELSE IF rq.kind \in {"tenant_admin", "exempt"} THEN Proceed(c, t)
    ELSE IF candidate_slug(rq) = None
         THEN IF rq.kind = "required" THEN Reject(400, c, t) ELSE Proceed(c, t)
    ELSE set_and_validate_tenant(candidate_slug(rq), reg, c, t)

\* a process_response that leaves the context as it is
process_response_keeps(c, t) == [cv |-> c, tl |-> t]

\* TenantMiddleware.process_response: the context slots afterwards
process_response(c, t) == clear_current_tenant(c, t)

\* TenantMiddleware.process_exception: the context slots afterwards
process_exception(c, t) == clear_current_tenant(c, t)

\* ------------------------------------------------------------------------
\* Worker threads: each serves one request at a time; the ContextVar and the
\* thread-local of a thread outlive the request and are seen by the next one
\* ------------------------------------------------------------------------

Threads == {"w1", "w2"}

\* one storage for every thread, as a module-level global would be
SlotShared(t) == "w1"

\* the ContextVar and threading.local keep one value per thread
SlotOf(t) == t

\* most rows written to tenant-scoped tables in one run
MaxRows == 2

PathKinds == {"exempt", "required", "other", "tenant_admin"}

\* the requests that can arrive
Requests ==
    [kind : {"exempt"}, url_slug : {None}, header : {None},
     subdomain : {None}, path_slug : {None}]
    \cup
    [kind : {"tenant_admin"}, url_slug : SlugInputs, header : {None},
     subdomain : {None}, path_slug : {None}]
    \cup
    [kind : {"required", "other"}, url_slug : {None},
     header : SlugInputs \cup {None},
     subdomain : {None, Acme, Www}, path_slug : {None, Beta, TooShort}]

\* the requests that name their tenant in the header or in the admin URL
HeaderRequests ==
    {rq \in Requests :
        /\ rq.subdomain = None
        /\ rq.path_slug = None
        /\ rq.header \in Slugs \cup {None}
        /\ rq.url_slug \in Slugs \cup {None}}

NoRequest == [slug |-> None, tenant_slug |-> None]

NoGet == [thread |-> "none", value |-> None]

NoRead == [ctx |-> None, rows |-> {}]

\* get_current_tenant() as thread t sees it during its request
CurrentTenant(t) ==
    get_current_tenant(th_cv[SlotOf(t)], th_tl[SlotOf(t)], th_req[t].tenant_slug)

\* the rows of the tenants the worlds below provision
ActiveRow0 == ActivatedTenant(PendingTenant("PROFESSIONAL"))

\* the registry states the threads can find: the first tenant is active,
\* the second is active, suspended, cancelled, awaiting payment or absent
ThreadWorlds ==
    {[s \in Slugs |-> IF s = Acme THEN ActiveRow0 ELSE r] :
        r \in {ActiveRow0, SuspendedTenant(ActiveRow0),
               CancelledTenant(ActiveRow0), PendingTenant("BASIC"), NoTenant}}

\* the tenants whose schema and tables were created
Provisioned(reg) == {s \in Slugs : reg[s].provisioning_status = "ACTIVE"}

ThreadInit ==
    /\ th_cv = [t \in Threads |-> None]
    /\ th_tl = [t \in Threads |-> None]
    /\ th_pc = [t \in Threads |-> "idle"]
    /\ th_req = [t \in Threads |-> NoRequest]
    /\ th_status = [t \in Threads |-> 0]
    /\ th_how = [t \in Threads |-> "none"]
    /\ th_set = [t \in Threads |-> {}]
    /\ last_get = NoGet
    /\ last_read = NoRead
    /\ tables = TablesOf(tenant)
    /\ store = [n \in SchemaNames |-> {}]
    /\ next_id = 1

\* a request arrives at an idle thread and passes TenantMiddleware
Arrive(t, rq) ==
    /\ th_pc[t] = "idle"
    /\ LET r == process_request(rq, tenant, th_cv[SlotOf(t)], th_tl[SlotOf(t)])
           admin == rq.kind = "tenant_admin" /\ AdminUrlMatches(rq.url_slug)
       IN /\ th_cv' = [th_cv EXCEPT ![SlotOf(t)] = r.cv]
          /\ th_tl' = [th_tl EXCEPT ![SlotOf(t)] = r.tl]
          /\ th_req' = [th_req EXCEPT ![t] =
                 [slug |-> IF admin /\ r.status = 0 THEN rq.url_slug ELSE None,
                  tenant_slug |-> r.tenant_slug]]
          /\ th_status' = [th_status EXCEPT ![t] = r.status]
          /\ th_how' = [th_how EXCEPT ![t] =
                 IF r.status = 0 THEN "none" ELSE "early"]
          /\ th_pc' = [th_pc EXCEPT ![t] =
                 IF r.status # 0 THEN "response"
                 ELSE IF admin THEN "admin_wrapper" ELSE "view"]
          /\ th_set' = [th_set EXCEPT ![t] =
                 IF r.tenant_slug # None THEN {r.tenant_slug} ELSE {}]
    /\ last_get' = IF last_get.thread = t THEN NoGet ELSE last_get
    /\ UNCHANGED <<last_read, storeVars, tenant>>

\* TenantAdminSite.admin_view: the wrapper sets the tenant of the admin site
\* again and leaves the clearing to the middleware
AdminWrapper(t) ==
    /\ th_pc[t] = "admin_wrapper"
    /\ LET slug == th_req[t].slug
           after == set_current_tenant(th_cv[SlotOf(t)], th_tl[SlotOf(t)], slug)
       IN /\ th_cv' = [th_cv EXCEPT ![SlotOf(t)] = after.cv]
          /\ th_tl' = [th_tl EXCEPT ![SlotOf(t)] = after.tl]
          /\ th_req' = [th_req EXCEPT ![t] = [slug |-> None, tenant_slug |-> slug]]
          /\ th_set' = [th_set EXCEPT ![t] =
                 IF set_current_tenant_ok(slug) THEN @ \cup {slug} ELSE @]
    /\ th_pc' = [th_pc EXCEPT ![t] = "view"]
    /\ UNCHANGED <<th_status, th_how, last_get, last_read, storeVars, tenant>>

\* the view asks for the current tenant (permission classes, customize)
ViewGetsTenant(t) ==
    /\ th_pc[t] = "view"
    /\ last_get' = [thread |-> t, value |-> CurrentTenant(t)]
    /\ UNCHANGED <<th_cv, th_tl, th_pc, th_req, th_status, th_how, th_set,
                   last_read, storeVars, tenant>>

\* the exception path of a request: process_exception, then the response
Raise(t) ==
    /\ th_cv' = [th_cv EXCEPT ![SlotOf(t)] =
           process_exception(th_cv[SlotOf(t)], th_tl[SlotOf(t)]).cv]
    /\ th_tl' = [th_tl EXCEPT ![SlotOf(t)] =
           process_exception(th_cv[SlotOf(t)], th_tl[SlotOf(t)]).tl]
    /\ th_pc' = [th_pc EXCEPT ![t] = "response"]
    /\ th_status' = [th_status EXCEPT ![t] = 500]
    /\ th_how' = [th_how EXCEPT ![t] = "exception"]
    /\ th_req' = [th_req EXCEPT ![t] = NoRequest]

\* the schema a tenant-scoped statement lands in on a connection, None when
\* the table does not exist there
RoutedSchema(alias) ==
    ResolveSchema(Connection(databases, alias).search_path, tables)

\* the view saves a row of a tenant-scoped model through the router
ViewWrites(t) ==
    /\ th_pc[t] = "view"
    /\ next_id <= MaxRows
    /\ LET cur == CurrentTenant(t)
           target == RoutedSchema(db_for_write("company_compliance", cur, databases))
       IN IF target = None
          THEN /\ Raise(t)
               /\ UNCHANGED <<th_set, last_get, last_read, storeVars, tenant>>
          ELSE /\ store' = [store EXCEPT ![target] =
                      @ \cup {[id |-> next_id, ctx |-> cur]}]
               /\ next_id' = next_id + 1
               /\ UNCHANGED <<threadVars, databases, tables, tenant>>

\* the view reads the rows of a tenant-scoped model through the router
ViewReads(t) ==
    /\ th_pc[t] = "view"
    /\ LET cur == CurrentTenant(t)
           target == RoutedSchema(db_for_read("company_compliance", cur, databases))
       IN IF target = None
          THEN /\ Raise(t)
               /\ UNCHANGED <<th_set, last_get, last_read, storeVars, tenant>>
          ELSE /\ last_read' = [ctx |-> cur, rows |-> store[target]]
               /\ UNCHANGED <<th_cv, th_tl, th_pc, th_req, th_status, th_how,
                              th_set, last_get, storeVars, tenant>>

\* the view returns a response
ViewReturns(t) ==
    /\ th_pc[t] = "view"
    /\ th_pc' = [th_pc EXCEPT ![t] = "response"]
    /\ th_status' = [th_status EXCEPT ![t] = 200]
    /\ th_how' = [th_how EXCEPT ![t] = "normal"]
    /\ th_req' = [th_req EXCEPT ![t] = NoRequest]
    /\ UNCHANGED <<th_cv, th_tl, th_set, last_get, last_read, storeVars, tenant>>

\* the view raises
ViewRaises(t) ==
    /\ th_pc[t] = "view"
    /\ Raise(t)
    /\ UNCHANGED <<th_set, last_get, last_read, storeVars, tenant>>

\* TenantMiddleware.process_response: the request is finished
Respond(t) ==
    /\ th_pc[t] = "response"
    /\ th_cv' = [th_cv EXCEPT ![SlotOf(t)] =
           process_response(th_cv[SlotOf(t)], th_tl[SlotOf(t)]).cv]
    /\ th_tl' = [th_tl EXCEPT ![SlotOf(t)] =
           process_response(th_cv[SlotOf(t)], th_tl[SlotOf(t)]).tl]
    /\ th_pc' = [th_pc EXCEPT ![t] = "idle"]
    /\ UNCHANGED <<th_req, th_status, th_how, th_set, last_get, last_read,
                   storeVars, tenant>>

\* C1: every row a tenant-scoped read returns was written under the tenant
\* context the read is performed under; a row written under one tenant is
\* never returned to another.
C1_ReadsOnlyOwnRows ==
    \A e \in last_read.rows : e.ctx = last_read.ctx

\* both tenants have written a row, and the last read, under the second
\* tenant, returned that tenant's row
C1_Witness ==
    /\ \E e \in store[schema_name(Acme)] : e.ctx = Acme
    /\ last_read.ctx = Beta
    /\ last_read.rows # {}
    /\ last_read.rows = store[schema_name(Beta)]

\* C2: get_current_tenant called in a unit of work returns nothing or a
\* tenant that this unit itself has set, whatever other units set at the same
\* time on other threads or earlier on the same thread.
C2_GetReturnsOwnTenant ==
    last_get.thread \in Threads =>
        last_get.value \in {None} \cup th_set[last_get.thread]

\* two requests for different tenants are in their views at the same time
\* and the first has just read its own tenant
C2_Witness ==
    /\ th_pc["w1"] = "view" /\ th_pc["w2"] = "view"
    /\ th_req["w1"].tenant_slug = Acme
    /\ th_req["w2"].tenant_slug = Beta
    /\ last_get = [thread |-> "w1", value |-> Acme]

\* C3: a thread that has finished a request, by a normal response, an early
\* error response or an exception of the view, has no current tenant.
C3_ContextEmptyAfterRequest ==
    \A t \in Threads : th_pc[t] = "idle" => CurrentTenant(t) = None

\* a request for a tenant ended by an exception of the view and is finished
C3_Witness ==
    \E t \in Threads :
        /\ th_pc[t] = "idle"
        /\ th_how[t] = "exception"
        /\ th_set[t] = {Acme}

\* ------------------------------------------------------------------------
\* Provisioning and distribution calls: tenant_management/tenant_utils.py,
\* tenant_management/views.py, templates_host/distribution_utils.py.
\* Every call loads the tenant row into an object of its own; save() writes
\* every field of that object back to the row.
\* ------------------------------------------------------------------------

VARIABLES
    pg_schemas,   \* the schemas that exist in PostgreSQL
    subs,         \* the FrameworkSubscription rows: (tenant, framework_id)
    proc,         \* the calls in progress: position, loaded tenant object,
                  \* steps done, pending error, open transaction, copy call
    cache         \* the tenant cache: the entry stored for each slug

provVars == <<pg_schemas, subs, proc, cache>>

VARIABLES
    \* --- customization of a copied control (company_compliance/views.py)
    cz_plan,      \* the code of the tenant's subscription plan
    cz_control,   \* the copied control: its can_customize and is_customized
    cz_last       \* the last operation on the control and its response

czVars == <<cz_plan, cz_control, cz_last>>

VARIABLES
    \* --- the last request TenantMiddleware validated (core/middleware.py)
    mw_last

VARIABLES
    \* --- authorization of a member (core/middleware.py, user_management)
    memberships,  \* the TenantMembership row of the user, by tenant slug
    az_last       \* the last request TenantAuthorizationMiddleware saw

azVars == <<memberships, az_last>>

VARIABLES
    \* --- the last question put to ComplianceRouter (core/database_router.py)
    rt_last

VARIABLES
    \* --- repeated provisioning of a tenant (tenant_management/tenant_utils.py)
    rp            \* per tenant: the calls made, what they reported, and the
                  \* state the first run left

VARIABLES
    \* --- copying a template tree (templates_host/distribution_utils.py)
    tpl,          \* the nodes of the framework template
    dist,         \* the result of copy_framework_to_tenant: rows and stats
    batch         \* a call of distribute_framework_to_multiple_tenants

distVars == <<tpl, dist, batch>>

VARIABLES
    \* --- subscribing a tenant to frameworks (tenant_management/views.py)
    sb            \* the tenant's plan, subscriptions and copied controls

VARIABLES
    \* --- registering tenant connections (tenant_management/tenant_utils.py)
    conn          \* the calls of add_tenant_database_to_django in progress
                  \* and the connections whose test query has succeeded

auxVars == <<czVars, mw_last, azVars, rt_last, rp, distVars, sb, conn>>

vars == <<scopeVars, threadVars, storeVars, tenant, provVars, auxVars>>

\* the calls of activate_tenant_with_framework that can run at the same time
Activations == {"a1", "a2"}

\* the calls of TenantViewSet.subscribe that can run at the same time
Subscribes == {"s1", "s2"}

Calls == Activations \cup Subscribes

\* the tenant the calls are about
Prov == Acme

\* the active Framework templates, and the framework ids a caller can pass
Templates == {"F1"}
FrameworkIds == {"F1", "F0"}

\* the subscription plan of the tenant
ProvPlans == {"PROFESSIONAL"}

\* the rows one copy of a framework consists of, in the order
\* _copy_framework_structure saves them
NodeKinds ==
    <<"framework", "domain", "category", "subcategory", "control",
      "question", "evidence">>

\* the steps of activate_tenant_with_framework, in order
StepOrder ==
    <<"get_tenant", "create_schema", "django_connection", "migrations",
      "set_active", "framework_subscription", "final_status">>

\* the steps before a given step
StepsBefore(step) ==
    {StepOrder[i] : i \in {j \in 1..Len(StepOrder) :
        \E k \in 1..Len(StepOrder) : StepOrder[k] = step /\ j < k}}

NoCopy ==
    [n |-> "", fw |-> "", saved |-> 0, raised |-> FALSE, result |-> "none",
     ret |-> ""]

IdleCall ==
    [pc |-> "idle", info |-> NoTenant, ran |-> {}, err |-> "", txn |-> {},
     cp |-> NoCopy, outcome |-> "none"]

\* an empty place of the tenant cache
NoEntry == [cached |-> FALSE, status |-> "", provisioning_status |-> ""]

\* invalidate_tenant_cache: cache.delete of the tenant's key
invalidate_tenant_cache(c, slug) == [c EXCEPT ![slug] = NoEntry]

\* get_cached_tenant_db_info: the cache afterwards; a miss is filled from
\* the row with that slug and is_active, if there is one
get_cached_tenant_db_info(c, reg, slug) ==
    IF c[slug].cached THEN c
    ELSE IF ActiveRow(reg, slug)
    THEN [c EXCEPT ![slug] =
             [cached |-> TRUE, status |-> reg[slug].subscription_status,
              provisioning_status |-> reg[slug].provisioning_status]]
    ELSE c

\* a caller asks get_cached_tenant_db_info for the tenant and misses
GetCached ==
    /\ cache' = get_cached_tenant_db_info(cache, tenant, Prov)
    /\ cache' # cache
    /\ UNCHANGED <<tenant, pg_schemas, databases, tables, store, subs, proc>>

\* Model.save(): the row becomes the in-memory object, field by field
save(reg, slug, obj) == [reg EXCEPT ![slug] = obj]

\* a rollback that leaves the rows written so far in place
rollback_keeps(rows, written) == rows \cup written

\* leaving transaction.atomic(using=connection_name) by an exception
rollback(rows, written) == rows

\* leaving transaction.atomic(using=connection_name) normally
commit(rows, written) == rows \cup written

\* the rows a copy call has saved when it stops after k of them
CopiedNodes(p, c, k) ==
    {[kind |-> NodeKinds[i], fw |-> c.fw, call |-> <<p, c.n>>] : i \in 1..k}

\* an except handler that leaves the tenant row as it was loaded
failed_row_unmarked(row, e) == row

\* activate_tenant_with_framework, except Exception: the object it saves
failed_row(row, e) ==
    [row EXCEPT !.provisioning_status = "FAILED", !.provisioning_error = e]

\* copy_framework_to_tenant is called: n names the call site
CallCopy(c, n, fw, ret) ==
    [c EXCEPT !.pc = "copy_begin",
              !.cp = [n |-> n, fw |-> fw, saved |-> 0, raised |-> FALSE,
                      result |-> "none", ret |-> ret]]

\* copy_framework_to_tenant returns to its caller
ReturnCopy(c, result) ==
    [c EXCEPT !.pc = c.cp.ret, !.cp.result = result, !.txn = {}]

\* copy_framework_to_tenant up to the transaction: the framework must be an
\* active template, the tenant object active, the connection registered and
\* SET search_path must succeed; otherwise a failure result and no copying
CopyBegin(p) ==
    /\ proc[p].pc = "copy_begin"
    /\ LET c == proc[p]
           refused == \/ c.cp.fw \notin Templates
                      \/ ~c.info.is_active
                      \/ ~Registered(databases, connection_name(Prov))
       IN \E fails \in BOOLEAN :
            proc' = [proc EXCEPT ![p] =
                IF refused \/ fails THEN ReturnCopy(c, "failure")
                ELSE [c EXCEPT !.pc = "copy_body"]]
    /\ UNCHANGED <<tenant, pg_schemas, databases, tables, store, subs, cache>>

\* _copy_framework_structure inside the transaction: the rows are saved in
\* order until one save raises (k rows saved), or all are saved and the
\* commit can still fail; nothing is visible outside before the commit
CopyBody(p) ==
    /\ proc[p].pc = "copy_body"
    /\ LET c == proc[p]
           target == RoutedSchema(connection_name(Prov))
       IN \E k \in 0..Len(NodeKinds), raised \in BOOLEAN :
            /\ k < Len(NodeKinds) => raised
            /\ target = None => k = 0
            /\ proc' = [proc EXCEPT ![p] =
                   [c EXCEPT !.pc = "copy_end",
                             !.txn = CopiedNodes(p, c.cp, k),
                             !.cp.saved = k,
                             !.cp.raised = raised]]
    /\ UNCHANGED <<tenant, pg_schemas, databases, tables, store, subs, cache>>

\* the end of the transaction and of copy_framework_to_tenant: commit and a
\* success result, or rollback and, from except Exception, a failure result
CopyEnd(p) ==
    /\ proc[p].pc = "copy_end"
    /\ LET c == proc[p]
           target == RoutedSchema(connection_name(Prov))
       IN /\ store' = IF target = None THEN store
                      ELSE [store EXCEPT ![target] =
                               IF c.cp.raised THEN rollback(@, c.txn)
                               ELSE commit(@, c.txn)]
          /\ proc' = [proc EXCEPT ![p] =
                 ReturnCopy(c, IF c.cp.raised THEN "failure" ELSE "success")]
    /\ UNCHANGED <<tenant, pg_schemas, databases, tables, subs, cache>>

\* an activation step raises: control goes to the except handler
RaiseIn(c, step) == [c EXCEPT !.pc = "except", !.err = step]

\* an activation step is done
StepDone(c, step, next) == [c EXCEPT !.pc = next, !.ran = @ \cup {step}]

\* activate_tenant_with_framework, step 1: the row is loaded if its
\* subscription_status is PENDING_PAYMENT; otherwise DoesNotExist becomes
\* ValueError("not found or already activated") and nothing is done
ActivateGetTenant(p, fw) ==
    /\ proc[p].pc = "idle"
    /\ proc' = [proc EXCEPT ![p] =
           IF tenant[Prov].exists
              /\ tenant[Prov].subscription_status = "PENDING_PAYMENT"
           THEN [StepDone(@, "get_tenant", "create_schema") EXCEPT
                    !.info = tenant[Prov], !.cp.fw = fw]
           ELSE [@ EXCEPT !.pc = "done", !.outcome = "state_error"]]
    /\ UNCHANGED <<tenant, pg_schemas, databases, tables, store, subs, cache>>

\* step 2, create_postgresql_schema: CREATE SCHEMA unless it exists, then
\* GRANT; connecting can fail before, the GRANT after the schema was made
ActivateCreateSchema(p) ==
    /\ proc[p].pc = "create_schema"
    /\ \E how \in {"ok", "connect_fails", "grant_fails"} :
        /\ pg_schemas' = IF how = "connect_fails" THEN pg_schemas
                         ELSE pg_schemas \cup {schema_name(Prov)}
        /\ proc' = [proc EXCEPT ![p] =
               IF how = "ok" THEN StepDone(@, "create_schema", "django_connection")
               ELSE RaiseIn(@, "create_schema")]
    /\ UNCHANGED <<tenant, databases, tables, store, subs, cache>>

\* step 3, add_tenant_database_to_django: a registered connection is
\* returned as it is; a new one is registered and tested, and removed again
\* when the test fails
ActivateDjangoConnection(p) ==
    /\ proc[p].pc = "django_connection"
    /\ \E test_ok \in BOOLEAN :
        LET known == Registered(databases, connection_name(Prov))
        IN /\ databases' = IF known \/ ~test_ok THEN databases
                           ELSE databases \cup {db_config(Prov)}
           /\ proc' = [proc EXCEPT ![p] =
                  IF known \/ test_ok
                  THEN StepDone(@, "django_connection", "migrations")
                  ELSE RaiseIn(@, "django_connection")]
    /\ UNCHANGED <<tenant, pg_schemas, tables, store, subs, cache>>

\* step 4, force_create_company_tables: the tables are created in one
\* transaction; a table that exists aborts the transaction, so creating them
\* a second time fails like any other error, and the activation raises
ActivateMigrations(p) ==
    /\ proc[p].pc = "migrations"
    /\ \E create_ok \in BOOLEAN :
        LET possible == /\ Registered(databases, connection_name(Prov))
                        /\ schema_name(Prov) \in pg_schemas
                        /\ schema_name(Prov) \notin tables
            success == possible /\ create_ok
        IN /\ tables' = IF success THEN tables \cup {schema_name(Prov)}
                        ELSE tables
           /\ proc' = [proc EXCEPT ![p] =
                  IF success THEN StepDone(@, "migrations", "set_active")
                  ELSE RaiseIn(@, "migrations")]
    /\ UNCHANGED <<tenant, pg_schemas, databases, store, subs, cache>>

\* step 4.5: the loaded object is set ACTIVE and saved, then
\* copy_framework_to_tenant is called with it
ActivateSetActive(p) ==
    /\ proc[p].pc = "set_active"
    /\ LET c == proc[p]
           obj == ActivatedTenant(c.info)
       IN /\ tenant' = save(tenant, Prov, obj)
          /\ proc' = [proc EXCEPT ![p] =
                 CallCopy([StepDone(c, "set_active", "") EXCEPT !.info = obj],
                          "activate", c.cp.fw, "finalize")]
    /\ UNCHANGED <<pg_schemas, databases, tables, store, subs, cache>>

\* step 5 and the final save: a failure result of the copy is raised; after
\* a success the object is saved once more, the cache entry of the tenant is
\* deleted and the activation returns
ActivateFinalize(p) ==
    /\ proc[p].pc = "finalize"
    /\ LET c == proc[p]
       IN IF c.cp.result = "success"
          THEN /\ tenant' = save(tenant, Prov, c.info)
               /\ proc' = [proc EXCEPT ![p] =
                      [StepDone(StepDone(c, "framework_subscription", ""),
                                "final_status", "done")
                         EXCEPT !.outcome = "ok"]]
               /\ cache' = invalidate_tenant_cache(cache, Prov)
          ELSE /\ tenant' = tenant
               /\ proc' = [proc EXCEPT ![p] = RaiseIn(c, "framework_subscription")]
               /\ cache' = cache
    /\ UNCHANGED <<pg_schemas, databases, tables, store, subs>>

\* except Exception: the loaded object is marked FAILED with the error,
\* saved, and the exception is raised again
ActivateExcept(p) ==
    /\ proc[p].pc = "except"
    /\ LET c == proc[p]
           obj == failed_row(c.info, c.err)
       IN /\ tenant' = save(tenant, Prov, obj)
          /\ proc' = [proc EXCEPT ![p] =
                 [c EXCEPT !.pc = "done", !.info = obj, !.outcome = "failed"]]
    /\ UNCHANGED <<pg_schemas, databases, tables, store, subs, cache>>

\* create_tenant_record: a slug that has a row is refused
CreateTenantRecord(plan) ==
    /\ ~tenant[Prov].exists
    /\ tenant' = save(tenant, Prov, PendingTenant(plan))
    /\ UNCHANGED <<pg_schemas, databases, tables, store, subs, proc, cache>>

\* delete_pending_tenant: the row is marked DELETED and inactive if it is
\* PENDING_PAYMENT and PENDING; otherwise the call is refused
DeletePending ==
    /\ tenant[Prov].exists
    /\ tenant' =
         IF /\ tenant[Prov].subscription_status = "PENDING_PAYMENT"
            /\ tenant[Prov].provisioning_status = "PENDING"
         THEN save(tenant, Prov,
                   [tenant[Prov] EXCEPT !.subscription_status = "DELETED",
                                        !.is_active = FALSE])
         ELSE tenant
    /\ UNCHANGED <<pg_schemas, databases, tables, store, subs, proc, cache>>

\* TenantViewSet.suspend: refused only if the tenant is suspended already
Suspend ==
    /\ tenant[Prov].exists
    /\ IF tenant[Prov].subscription_status = "SUSPENDED"
       THEN UNCHANGED <<tenant, cache>>
       ELSE /\ tenant' = save(tenant, Prov, SuspendedTenant(tenant[Prov]))
            /\ cache' = invalidate_tenant_cache(cache, Prov)
    /\ UNCHANGED <<pg_schemas, databases, tables, store, subs, proc>>

\* TenantViewSet.reactivate: only a suspended tenant becomes ACTIVE
Reactivate ==
    /\ tenant[Prov].exists
    /\ IF tenant[Prov].subscription_status # "SUSPENDED"
       THEN UNCHANGED <<tenant, cache>>
       ELSE /\ tenant' = save(tenant, Prov,
                     [tenant[Prov] EXCEPT !.subscription_status = "ACTIVE"])
            /\ cache' = invalidate_tenant_cache(cache, Prov)
    /\ UNCHANGED <<pg_schemas, databases, tables, store, subs, proc>>

\* TenantViewSet.destroy: soft delete
Destroy ==
    /\ tenant[Prov].exists
    /\ tenant' = save(tenant, Prov, CancelledTenant(tenant[Prov]))
    /\ cache' = invalidate_tenant_cache(cache, Prov)
    /\ UNCHANGED <<pg_schemas, databases, tables, store, subs, proc>>

\* TenantUpdateSerializer.validate_subscription_status: the transitions
\* allowed from a status; a status without an entry allows none
valid_transitions(current) ==
    CASE current = "TRIAL" -> {"ACTIVE", "CANCELLED", "EXPIRED"}
      [] current = "ACTIVE" -> {"SUSPENDED", "CANCELLED"}
      [] current = "SUSPENDED" -> {"ACTIVE", "CANCELLED"}
      [] current = "CANCELLED" -> {}
      [] current = "EXPIRED" -> {"ACTIVE"}
      [] OTHER -> {}

\* the choices of TenantDatabaseInfo.subscription_status, which are the
\* values the serializer's field accepts
StatusChoices == {"TRIAL", "ACTIVE", "SUSPENDED", "CANCELLED", "EXPIRED"}

\* TenantViewSet.update with a subscription_status: refused unless the
\* value is the current status or an allowed transition from it
Update(value) ==
    /\ tenant[Prov].exists
    /\ IF value = tenant[Prov].subscription_status
          \/ value \in valid_transitions(tenant[Prov].subscription_status)
       THEN /\ tenant' = save(tenant, Prov,
                     [tenant[Prov] EXCEPT !.subscription_status = value])
            /\ cache' = invalidate_tenant_cache(cache, Prov)
       ELSE UNCHANGED <<tenant, cache>>
    /\ UNCHANGED <<pg_schemas, databases, tables, store, subs, proc>>

\* TenantViewSet.subscribe up to the first copy: the tenant must be ACTIVE,
\* the framework an active template and not subscribed yet; then
\* copy_framework_to_tenant is called with the loaded tenant.  (With one
\* template the plan's framework limit is reached only by a tenant that is
\* subscribed to it already.)
SubscribeStart(p, fw) ==
    /\ proc[p].pc = "idle"
    /\ tenant[Prov].exists
    /\ proc' = [proc EXCEPT ![p] =
           IF tenant[Prov].subscription_status # "ACTIVE"
           THEN [@ EXCEPT !.pc = "done", !.outcome = "state_error"]
           ELSE IF fw \notin Templates \/ <<Prov, fw>> \in subs
           THEN [@ EXCEPT !.pc = "done", !.outcome = "validation_error"]
           ELSE CallCopy([@ EXCEPT !.info = tenant[Prov]], "view", fw,
                         "sub_view_copied")]
    /\ UNCHANGED <<tenant, pg_schemas, databases, tables, store, subs, cache>>

\* subscribe after its own copy: a failure result ends the request; after a
\* success serializer.save() runs FrameworkSubscribeSerializer.create, which
\* calls copy_framework_to_tenant again
SubscribeSave(p) ==
    /\ proc[p].pc = "sub_view_copied"
    /\ LET c == proc[p]
       IN proc' = [proc EXCEPT ![p] =
              IF c.cp.result # "success"
              THEN [c EXCEPT !.pc = "done", !.outcome = "distribution_failed"]
              ELSE CallCopy(c, "create", c.cp.fw, "sub_create_copied")]
    /\ UNCHANGED <<tenant, pg_schemas, databases, tables, store, subs, cache>>

\* FrameworkSubscribeSerializer.create after its copy: a failure result is
\* raised; after a success the subscription row is created (unique per
\* tenant and framework) and the loaded tenant is saved
SubscribeCreate(p) ==
    /\ proc[p].pc = "sub_create_copied"
    /\ LET c == proc[p]
           key == <<Prov, c.cp.fw>>
       IN IF c.cp.result # "success"
          THEN /\ proc' = [proc EXCEPT ![p] =
                      [c EXCEPT !.pc = "done", !.outcome = "distribution_failed"]]
               /\ UNCHANGED <<tenant, subs>>
          ELSE IF key \in subs
          THEN /\ proc' = [proc EXCEPT ![p] =
                      [c EXCEPT !.pc = "done", !.outcome = "integrity_error"]]
               /\ UNCHANGED <<tenant, subs>>
          ELSE /\ subs' = subs \cup {key}
               /\ tenant' = save(tenant, Prov, c.info)
               /\ proc' = [proc EXCEPT ![p] =
                      [c EXCEPT !.pc = "done", !.outcome = "ok"]]
    /\ UNCHANGED <<pg_schemas, databases, tables, store, cache>>

\* the copies of a framework a schema holds: the calls that left a
\* framework row there
CopiesOf(fw) ==
    {e.call : e \in {x \in store[schema_name(Prov)] :
                        x.kind = "framework" /\ x.fw = fw}}

\* C5: for every framework the tenant's schema holds at most one copy,
\* whatever activate and subscribe calls have run.
C5_AtMostOneCopy ==
    \A fw \in Templates : Cardinality(CopiesOf(fw)) <= 1

\* the rows a copy call left in the tenant-scoped tables
RowsOfCall(p, n) ==
    UNION {{e \in store[x] : e.call = <<p, n>>} : x \in SchemaNames}

\* C6: a call of copy_framework_to_tenant that fails after it began to copy
\* leaves none of its rows (framework, domain, category, subcategory,
\* control, question, evidence) in the schema, and it returns the failure
\* result to its caller instead of raising.
C6_FailedCopyLeavesNothing ==
    /\ [](\A p \in Calls :
             proc[p].cp.result = "failure" => RowsOfCall(p, proc[p].cp.n) = {})
    /\ [][\A p \in Calls :
             (proc[p].pc = "copy_end" /\ proc[p].cp.raised
                /\ proc'[p].pc # "copy_end")
             => /\ proc'[p].cp.result = "failure"
                /\ proc'[p].pc = proc[p].cp.ret
                /\ RowsOfCall(p, proc[p].cp.n)' = {}]_vars

\* a copy call failed after it had saved the framework row and the rows
\* down to the control, while the schema holds the rows of another call
C6_Witness ==
    \E p \in Calls :
        /\ proc[p].cp.result = "failure"
        /\ proc[p].cp.saved = 5
        /\ store[schema_name(Prov)] # {}

\* C7: when a step of activate_tenant_with_framework fails, the steps after
\* it are not executed, the call ends with the tenant row saved as FAILED
\* with the error, and no row ever has provisioning_status PROVISIONING.
C7_FailureMarksFailed ==
    /\ [](\A x \in Slugs : tenant[x].provisioning_status # "PROVISIONING")
    /\ [](\A p \in Activations :
             proc[p].outcome = "failed"
             => /\ proc[p].pc = "done"
                /\ proc[p].err # ""
                /\ proc[p].ran = StepsBefore(proc[p].err))
    /\ [][\A p \in Activations :
             (proc[p].err # "" /\ proc[p].pc # "done" /\ proc'[p].pc = "done")
             => /\ proc'[p].outcome = "failed"
                /\ tenant'[Prov].provisioning_status = "FAILED"
                /\ tenant'[Prov].provisioning_error = proc[p].err]_vars

\* an activation failed in the framework distribution, after the tenant was
\* set ACTIVE, and the row is FAILED with the error of that step
C7_Witness ==
    \E p \in Activations :
        /\ proc[p].outcome = "failed"
        /\ proc[p].err = "framework_subscription"
        /\ tenant[Prov].provisioning_status = "FAILED"
        /\ tenant[Prov].provisioning_error = "framework_subscription"
        /\ tenant[Prov].subscription_status = "ACTIVE"

\* C8: a tenant whose subscription status is CANCELLED or DELETED keeps
\* that status whatever operation runs.
C8_TerminalStatusStays ==
    [][\A x \in Slugs :
          tenant[x].subscription_status \in {"CANCELLED", "DELETED"}
          => tenant'[x].subscription_status = tenant[x].subscription_status]_vars

\* an activation that has passed get_tenant and has not ended
InProgress(p) == proc[p].pc \notin {"idle", "done"}

\* C9: a tenant is marked DELETED only while no activation of it has begun
\* to create the schema: none is in progress past create_schema and the
\* schema does not exist.
C9_NoDeleteOnceSchemaStarted ==
    [][(tenant'[Prov].subscription_status = "DELETED"
          /\ tenant[Prov].subscription_status # "DELETED")
       => /\ schema_name(Prov) \notin pg_schemas
          /\ \A p \in Activations : "create_schema" \notin proc[p].ran]_vars

\* C10: an activation call is accepted only when no other activation of the
\* tenant is in progress and none has succeeded; every other call is
\* refused as a state error.
C10_SecondActivationRefused ==
    [][\A q \in Activations :
          (proc[q].pc = "idle" /\ proc'[q].pc # "idle"
             /\ proc'[q].outcome # "state_error")
          => \A p \in Activations \ {q} :
                ~InProgress(p) /\ proc[p].outcome # "ok"]_vars

\* C11: a tenant is ACTIVE only through an activation: whenever its
\* subscription status is ACTIVE, an activation call of it has set it ACTIVE
\* and has succeeded or is still running.
C11_ActiveOnlyByActivation ==
    tenant[Prov].subscription_status = "ACTIVE"
    => \E p \in Activations :
          /\ "set_active" \in proc[p].ran
          /\ proc[p].outcome \in {"none", "ok"}

\* C25: a tenant whose subscription status is ACTIVE and whose is_active
\* flag is true has provisioning status ACTIVE; in particular no activation
\* that has failed leaves the tenant ACTIVE.
C25_ActiveMeansProvisioned ==
    (tenant[Prov].subscription_status = "ACTIVE" /\ tenant[Prov].is_active)
        => tenant[Prov].provisioning_status = "ACTIVE"

\* C18: once the operations on a tenant have completed, the cache entry of
\* its slug, if there is one, carries the subscription and provisioning
\* status of the stored record, and there is none for a record that is not
\* active.
C18_CacheMatchesRecord ==
    ((\A p \in Calls : ~InProgress(p)) /\ cache[Prov].cached) =>
            /\ tenant[Prov].is_active
            /\ cache[Prov].status = tenant[Prov].subscription_status
            /\ cache[Prov].provisioning_status = tenant[Prov].provisioning_status

\* ------------------------------------------------------------------------
\* Customization of a copied control: company_compliance/views.py,
\* tenant_management/permissions.py, company_compliance/serializers.py
\* ------------------------------------------------------------------------

PlanCodes == {"BASIC", "PROFESSIONAL", "ENTERPRISE"}

CustomizationLevels == {"VIEW_ONLY", "CONTROL_LEVEL", "FULL"}

\* the SubscriptionPlan rows seed_initial_data creates
plan_row(code) ==
    CASE code = "BASIC" ->
           [can_customize_controls |-> FALSE, can_create_custom_frameworks |-> FALSE,
            max_frameworks |-> 2, default_customization_level |-> "VIEW_ONLY"]
      [] code = "PROFESSIONAL" ->
           [can_customize_controls |-> TRUE, can_create_custom_frameworks |-> FALSE,
            max_frameworks |-> 5, default_customization_level |-> "CONTROL_LEVEL"]
      [] code = "ENTERPRISE" ->
           [can_customize_controls |-> TRUE, can_create_custom_frameworks |-> TRUE,
            max_frameworks |-> 0, default_customization_level |-> "FULL"]

\* TenantViewSet.subscribe: the customization level the plan enforces on
\* the level a request asks for
enforced_level(code, requested) ==
    CASE code = "BASIC" -> "VIEW_ONLY"
      [] code = "PROFESSIONAL" -> "CONTROL_LEVEL"
      [] code = "ENTERPRISE" -> requested
      [] OTHER -> plan_row(code).default_customization_level

\* a copy that lets only FULL customize
copy_can_customize_full_only(customization_level) ==
    customization_level = "FULL"

\* _copy_control: can_customize of the copy
copy_can_customize(customization_level) ==
    customization_level \in {"CONTROL_LEVEL", "FULL"}

\* customize: the structural fields
RestrictedFields ==
    {"control_id", "control_code", "framework", "domain", "category",
     "subcategory"}

\* customize: allowed_fields_professional
AllowedFieldsProfessional ==
    {"custom_title", "custom_description", "custom_objective",
     "custom_procedures", "custom_implementation_guidance"}

\* the field names a request can carry: written by the serializer,
\* allow-listed only, structural, and unknown
RequestFields ==
    {"custom_title", "custom_implementation_guidance", "control_code", "notes"}

\* CanCustomizeControls.has_permission for a PATCH of an active tenant
CanCustomizeControls(code) == plan_row(code).can_customize_controls

Refused(why, listed) == [status |-> 403, why |-> why, listed |-> listed]

\* CompanyControlViewSet.customize for a member of an active tenant on plan
\* code, a control with the given can_customize and the fields of the body
customize(code, can_customize, fields) ==
    IF ~CanCustomizeControls(code) \/ ~plan_row(code).can_customize_controls
    THEN Refused("plan", {})
    ELSE IF fields \cap RestrictedFields # {}
            /\ ~plan_row(code).can_create_custom_frameworks
    THEN Refused("structure", fields \cap RestrictedFields)
    ELSE IF code = "PROFESSIONAL" /\ fields \ AllowedFieldsProfessional # {}
    THEN Refused("fields", fields \ AllowedFieldsProfessional)
    ELSE IF ~can_customize
    THEN Refused("control", {})
    ELSE [status |-> 200, why |-> "", listed |-> {}]

NoControl == [exists |-> FALSE, can_customize |-> FALSE, is_customized |-> FALSE,
              copied_plan |-> ""]

NoCustomize ==
    [op |-> "none", plan |-> "", can_customize |-> FALSE, fields |-> {},
     status |-> 0, why |-> "", listed |-> {}]

\* a framework is copied for the tenant through subscribe: the control gets
\* can_customize from the level the plan enforces
CzCopy(requested) ==
    /\ ~cz_control.exists
    /\ cz_control' =
         [exists |-> TRUE,
          can_customize |-> copy_can_customize(enforced_level(cz_plan, requested)),
          is_customized |-> FALSE,
          copied_plan |-> cz_plan]
    /\ cz_last' = [NoCustomize EXCEPT !.op = "copy", !.plan = cz_plan]
    /\ UNCHANGED cz_plan

\* TenantDatabaseInfoAdmin: the tenant is moved to another plan
CzChangePlan(code) ==
    /\ code # cz_plan
    /\ cz_plan' = code
    /\ cz_last' = [NoCustomize EXCEPT !.op = "plan", !.plan = code]
    /\ UNCHANGED cz_control

\* PATCH /api/v1/company/controls/{id}/customize/
CzCustomize(fields) ==
    /\ cz_control.exists
    /\ LET r == customize(cz_plan, cz_control.can_customize, fields)
       IN /\ cz_last' = [op |-> "customize", plan |-> cz_plan,
                         can_customize |-> cz_control.can_customize,
                         fields |-> fields, status |-> r.status,
                         why |-> r.why, listed |-> r.listed]
          /\ cz_control' = [cz_control EXCEPT !.is_customized =
                               IF r.status = 200 THEN TRUE ELSE @]
    /\ UNCHANGED cz_plan

\* C12: a customize request is refused under BASIC; under PROFESSIONAL it is
\* accepted only if every field it names is allow-listed and is otherwise
\* refused naming disallowed fields; under ENTERPRISE a request naming any
\* fields is accepted.
C12_PlanGating ==
    cz_last.op = "customize" =>
        /\ cz_last.plan = "BASIC" => cz_last.status = 403
        /\ cz_last.plan = "PROFESSIONAL" =>
              /\ cz_last.status = 200
                    => cz_last.fields \subseteq AllowedFieldsProfessional
              /\ ~(cz_last.fields \subseteq AllowedFieldsProfessional)
                    => /\ cz_last.status = 403
                       /\ cz_last.listed # {}
                       /\ cz_last.listed \subseteq
                             cz_last.fields \ AllowedFieldsProfessional
        /\ (cz_last.plan = "ENTERPRISE" /\ cz_last.fields # {})
              => cz_last.status = 200

\* C13: acceptance follows the plan at the time of the request and not the
\* can_customize stored at copy time: a control copied under BASIC accepts
\* allow-listed fields once the plan allows customization, and under BASIC
\* nothing is accepted whatever the control stores.
C13_CurrentPlanDecides ==
    cz_last.op = "customize" =>
        /\ cz_last.plan = "BASIC" => cz_last.status = 403
        /\ (cz_control.copied_plan = "BASIC" /\ cz_last.plan # "BASIC"
              /\ cz_last.fields # {}
              /\ cz_last.fields \subseteq AllowedFieldsProfessional)
              => cz_last.status = 200

\* ------------------------------------------------------------------------
\* Admission of a request by TenantMiddleware: core/middleware.py
\* ------------------------------------------------------------------------

\* the rows a tenant record passes through: absent, awaiting payment,
\* activated, suspended, soft-deleted
RegistryRows ==
    {NoTenant, PendingTenant("BASIC"), ActiveRow0, SuspendedTenant(ActiveRow0),
     CancelledTenant(ActiveRow0)}

\* the record stored for a slug, NoTenant if there is none
RowOf(reg, slug) == IF slug \in DOMAIN reg THEN reg[slug] ELSE NoTenant

\* the slug process_request hands to _set_and_validate_tenant, None if it
\* validates none
validated_slug(rq) ==
    IF rq.kind = "tenant_admin" /\ AdminUrlMatches(rq.url_slug) THEN rq.url_slug
    ELSE IF rq.kind \in {"tenant_admin", "exempt"} THEN None
    ELSE candidate_slug(rq)

NoAdmission == [slug |-> None, status |-> 0, tenant_slug |-> None, ctx |-> None]

\* TenantMiddleware.process_request on a request that starts with an empty
\* context
MwProcessRequest(rq) ==
    LET r == process_request(rq, tenant, None, None)
    IN /\ mw_last' = [slug |-> validated_slug(rq), status |-> r.status,
                      tenant_slug |-> r.tenant_slug,
                      ctx |-> get_current_tenant(r.cv, r.tl, None)]
       /\ UNCHANGED tenant

\* C14: for a well-formed slug the middleware answers 404 exactly when no
\* record with that slug exists, 403 exactly when a record exists whose
\* subscription status is neither ACTIVE nor PENDING_PAYMENT, and otherwise
\* admits the request with the context set to the slug.
C14_AdmissionByRecord ==
    (mw_last.slug # None /\ SlugFormatOk(mw_last.slug)) =>
        LET row == RowOf(tenant, mw_last.slug)
            accessible == row.subscription_status \in {"ACTIVE", "PENDING_PAYMENT"}
        IN /\ mw_last.status = 404 <=> ~row.exists
           /\ mw_last.status = 403 <=> (row.exists /\ ~accessible)
           /\ (row.exists /\ accessible)
                 => (mw_last.status = 0 /\ mw_last.ctx = mw_last.slug)

\* ------------------------------------------------------------------------
\* Authorization of a member: core/middleware.py,
\* company_compliance/permissions.py, user_management/models.py
\* ------------------------------------------------------------------------

\* TenantMembership.STATUS_CHOICES
MembershipStatuses == {"PENDING", "ACTIVE", "SUSPENDED", "INACTIVE"}

NoMembership == [exists |-> FALSE, status |-> "", is_active |-> FALSE]

\* the membership rows a user can have in a tenant
MembershipRows ==
    {NoMembership} \cup
    [exists : {TRUE}, status : MembershipStatuses, is_active : BOOLEAN]

\* request.user: anonymous, a user, a superuser
Users ==
    {[is_authenticated |-> FALSE, is_superuser |-> FALSE],
     [is_authenticated |-> TRUE, is_superuser |-> FALSE],
     [is_authenticated |-> TRUE, is_superuser |-> TRUE]}

\* TenantAuthorizationMiddleware.process_request: the status of the early
\* response, 0 if the request goes on; tenant_slug is None when
\* TenantMiddleware set none on the request
authorize(user, tenant_slug, rows) ==
    IF tenant_slug = None \/ ~user.is_authenticated THEN 0
    ELSE IF user.is_superuser THEN 0
    ELSE IF ~(rows[tenant_slug].exists /\ rows[tenant_slug].is_active) THEN 403
    ELSE IF rows[tenant_slug].status \notin {"ACTIVE", "PENDING"} THEN 403
    ELSE 0

\* IsTenantMember.has_permission
IsTenantMember(user, tenant_slug, rows) ==
    IF ~user.is_authenticated THEN FALSE
    ELSE IF user.is_superuser THEN TRUE
    ELSE IF tenant_slug = None THEN FALSE
    ELSE /\ rows[tenant_slug].exists
         /\ rows[tenant_slug].status = "ACTIVE"
         /\ rows[tenant_slug].is_active

NoAuthorization ==
    [op |-> "none", user |-> [is_authenticated |-> FALSE, is_superuser |-> FALSE],
     tenant_slug |-> None, status |-> 0, member |-> FALSE]

\* a request of the user passes TenantAuthorizationMiddleware and the
\* permission class of the view
AzProcessRequest(user, tenant_slug) ==
    /\ az_last' = [op |-> "request", user |-> user, tenant_slug |-> tenant_slug,
                   status |-> authorize(user, tenant_slug, memberships),
                   member |-> IsTenantMember(user, tenant_slug, memberships)]
    /\ UNCHANGED memberships

\* the membership of the user in a tenant is created, changed or removed
AzSetMembership(slug, row) ==
    /\ row # memberships[slug]
    /\ memberships' = [memberships EXCEPT ![slug] = row]
    /\ az_last' = NoAuthorization

\* the user holds an active membership in the tenant
ActiveMember(rows, slug) ==
    /\ rows[slug].exists
    /\ rows[slug].is_active
    /\ rows[slug].status = "ACTIVE"

\* C15: for a request with a tenant and an authenticated non-superuser the
\* authorization middleware lets the request proceed only if the user holds
\* an active membership in the tenant, answers 403 without a membership or
\* with one that is not active; a superuser always proceeds.
C15_OnlyActiveMembersProceed ==
    (az_last.op = "request" /\ az_last.tenant_slug # None
        /\ az_last.user.is_authenticated) =>
        IF az_last.user.is_superuser THEN az_last.status = 0
        ELSE /\ az_last.status = 0 => ActiveMember(memberships, az_last.tenant_slug)
             /\ ~ActiveMember(memberships, az_last.tenant_slug)
                   => az_last.status = 403

\* ------------------------------------------------------------------------
\* Questions put to ComplianceRouter: core/database_router.py
\* ------------------------------------------------------------------------

\* 'replica': an alias that is neither the shared one nor a tenant's
Replica == <<"r","e","p","l","i","c","a">>

\* the aliases migrate can be run against
MigrateAliases ==
    {DefaultAlias, Replica, Acme} \cup {connection_name(s) : s \in Slugs \cup {Ghost}}

\* the values get_current_tenant() can return to the router
RouterContexts == {None} \cup Slugs \cup {Ghost}

NoRouting ==
    [op |-> "none", app_label |-> "", current |-> None, db |-> None,
     alias |-> None, allowed |-> FALSE]

\* the ORM asks db_for_read for a model of app_label
RouteRead(app_label, current) ==
    /\ rt_last' = [NoRouting EXCEPT !.op = "read", !.app_label = app_label,
                      !.current = current,
                      !.alias = db_for_read(app_label, current, databases)]
    /\ UNCHANGED databases

\* the ORM asks db_for_write for a model of app_label
RouteWrite(app_label, current) ==
    /\ rt_last' = [NoRouting EXCEPT !.op = "write", !.app_label = app_label,
                      !.current = current,
                      !.alias = db_for_write(app_label, current, databases)]
    /\ UNCHANGED databases

\* migrate asks allow_migrate for an app on a connection
RouteMigrate(db, app_label) ==
    /\ rt_last' = [NoRouting EXCEPT !.op = "migrate", !.app_label = app_label,
                      !.db = db, !.allowed = allow_migrate(db, app_label)]
    /\ UNCHANGED databases

\* the alias is one connections[alias] finds
KnownAlias(dbs, alias) == alias = DefaultAlias \/ Registered(dbs, alias)

\* C16: db_for_read and db_for_write always return an alias that exists:
\* the shared one for a system app whatever the context, the current
\* tenant's own connection for the tenant-scoped app when a tenant is set
\* and its connection is registered, and the shared one in every other case.
C16_RoutingTotal ==
    rt_last.op \in {"read", "write"} =>
        /\ KnownAlias(databases, rt_last.alias)
        /\ rt_last.app_label \in MigratableSystemApps
              => rt_last.alias = DefaultAlias
        /\ rt_last.app_label = "company_compliance" =>
              rt_last.alias =
                 IF /\ rt_last.current # None
                    /\ Registered(databases, connection_name(rt_last.current))
                 THEN connection_name(rt_last.current)
                 ELSE DefaultAlias

\* reads and writes of the tenant-scoped app were routed with the tenant's
\* connection registered and with it missing
C16_Witness ==
    /\ rt_last.op = "write"
    /\ rt_last.app_label = "company_compliance"
    /\ rt_last.current = Beta
    /\ ~Registered(databases, connection_name(Beta))
    /\ Registered(databases, connection_name(Acme))
    /\ rt_last.alias = DefaultAlias

\* the alias is a tenant's connection
TenantAlias(db) == \E s \in Slugs \cup {Ghost} : db = connection_name(s)

\* C17: allow_migrate allows the shared connection only to system apps, a
\* tenant's connection only to the tenant-scoped app, and nothing on any
\* other connection.
C17_MigrateOnlyOwnKind ==
    rt_last.op = "migrate" =>
        rt_last.allowed =
           \/ rt_last.db = DefaultAlias /\ rt_last.app_label \in MigratableSystemApps
           \/ TenantAlias(rt_last.db) /\ rt_last.app_label = "company_compliance"

\* the tenant-scoped app was refused on a connection of neither kind
C17_Witness ==
    /\ rt_last.op = "migrate"
    /\ rt_last.db = Replica
    /\ rt_last.app_label = "company_compliance"
    /\ ~rt_last.allowed

\* ------------------------------------------------------------------------
\* Provisioning a tenant twice: tenant_management/tenant_utils.py
\* ------------------------------------------------------------------------

\* create_postgresql_schema: CREATE SCHEMA unless the schema exists
create_postgresql_schema(schemas, name) == schemas \cup {name}

\* add_tenant_database_to_django: a registered alias is returned as it is;
\* a new entry is registered and removed again when its test fails
add_tenant_database_to_django(dbs, slug, test_ok) ==
    IF Registered(dbs, connection_name(slug))
    THEN [raised |-> FALSE, databases |-> dbs]
    ELSE IF test_ok
    THEN [raised |-> FALSE, databases |-> dbs \cup {db_config(slug)}]
    ELSE [raised |-> TRUE, databases |-> dbs]

\* force_create_company_tables: the twelve tables are created in one
\* transaction.  The first table that exists raises 'already exists', which
\* is skipped, but the transaction is aborted by then, so the next statement
\* raises, the transaction is rolled back and success False is returned
force_create_company_tables(dbs, schemas, tbls, slug, create_ok) ==
    LET possible == /\ Registered(dbs, connection_name(slug))
                    /\ schema_name(slug) \in schemas
                    /\ schema_name(slug) \notin tbls
        success == possible /\ create_ok
    IN [success |-> success,
        tables |-> IF success THEN tbls \cup {schema_name(slug)} ELSE tbls]

\* the runs of the three functions for a tenant
Runs == 2

\* the functions of one run, in the order activation calls them
RunSteps ==
    <<"create_postgresql_schema", "add_tenant_database_to_django",
      "force_create_company_tables">>

\* what provisioning has left for a tenant
ProvisionedState(s) ==
    [schema |-> schema_name(s) \in pg_schemas,
     connection |-> Registered(databases, connection_name(s)),
     tables |-> schema_name(s) \in tables]

NoState == [schema |-> FALSE, connection |-> FALSE, tables |-> FALSE]

NoRuns == [done |-> 0, errors |-> {}, retried |-> FALSE, first |-> NoState]

\* the function a tenant's next call runs
NextStep(s) == RunSteps[(rp[s].done % Len(RunSteps)) + 1]

\* the call of a run is over: errors of the second run are kept
Called(s, step, error, after) ==
    [rp[s] EXCEPT !.done = @ + 1,
                  !.errors = IF error /\ rp[s].done >= Len(RunSteps)
                             THEN @ \cup {step} ELSE @,
                  !.first = IF rp[s].done + 1 = Len(RunSteps) THEN after ELSE @]

\* the next function is not reached because the database cannot be
\* connected to; the caller tries again
RpConnectFails(s) ==
    /\ rp[s].done < Runs * Len(RunSteps)
    /\ ~rp[s].retried
    /\ rp' = [rp EXCEPT ![s].retried = TRUE]
    /\ UNCHANGED <<pg_schemas, databases, tables>>

RpCreateSchema(s) ==
    /\ rp[s].done < Runs * Len(RunSteps)
    /\ NextStep(s) = "create_postgresql_schema"
    /\ pg_schemas' = create_postgresql_schema(pg_schemas, schema_name(s))
    /\ rp' = [rp EXCEPT ![s] =
          Called(s, NextStep(s), FALSE, ProvisionedState(s))]
    /\ UNCHANGED <<databases, tables>>

RpAddConnection(s) ==
    /\ rp[s].done < Runs * Len(RunSteps)
    /\ NextStep(s) = "add_tenant_database_to_django"
    /\ LET r == add_tenant_database_to_django(databases, s, TRUE)
       IN /\ databases' = r.databases
          /\ rp' = [rp EXCEPT ![s] =
                Called(s, NextStep(s), r.raised, ProvisionedState(s))]
    /\ UNCHANGED <<pg_schemas, tables>>

RpCreateTables(s) ==
    /\ rp[s].done < Runs * Len(RunSteps)
    /\ NextStep(s) = "force_create_company_tables"
    /\ LET r == force_create_company_tables(databases, pg_schemas, tables, s, TRUE)
       IN /\ tables' = r.tables
          /\ rp' = [rp EXCEPT ![s] =
                Called(s, NextStep(s), ~r.success,
                       [ProvisionedState(s) EXCEPT
                           !.tables = schema_name(s) \in r.tables])]
    /\ UNCHANGED <<pg_schemas, databases>>

\* C19: after the second run of schema creation, connection registration
\* and table creation for a provisioned tenant, no call of that run has
\* reported an error and schema, connection registry and tables are as the
\* first run left them.
C19_SecondRunSame ==
    \A s \in Slugs :
        rp[s].done = Runs * Len(RunSteps) =>
            /\ rp[s].errors = {}
            /\ ProvisionedState(s) = rp[s].first

\* ------------------------------------------------------------------------
\* Copying a template tree: templates_host/distribution_utils.py
\* ------------------------------------------------------------------------

\* the nodes a template can have, the framework included
MaxNodes == 7

\* the kinds of the children of a node, in the order they are copied
ChildKinds(kind) ==
    CASE kind = "framework" -> <<"domain">>
      [] kind = "domain" -> <<"category">>
      [] kind = "category" -> <<"subcategory">>
      [] kind = "subcategory" -> <<"control">>
      [] kind = "control" -> <<"question", "evidence">>
      [] OTHER -> <<>>

\* the level of a kind in the tree
KindRank(kind) == CHOOSE i \in DOMAIN NodeKinds : NodeKinds[i] = kind

\* the template framework: the root of the tree
FrameworkNode == [id |-> 1, kind |-> "framework", parent |-> 0, active |-> TRUE]

\* filter(is_active=True).order_by('sort_order'): the active children of a
\* kind of a node, in order; ids are given in sort order
RECURSIVE Ordered(_)
Ordered(nodes) ==
    IF nodes = {} THEN <<>>
    ELSE LET first == CHOOSE n \in nodes : \A m \in nodes : n.id <= m.id
         IN <<first>> \o Ordered(nodes \ {first})

ActiveChildren(nodes, node, kind) ==
    Ordered({n \in nodes : n.parent = node.id /\ n.kind = kind /\ n.active})

\* a copy function that stores the id of the template node's parent
copy_node_parent_id(node, parent_copy, id) ==
    [id |-> id, kind |-> node.kind, template_id |-> node.parent,
     parent |-> parent_copy]

\* _copy_framework, _copy_domain, ... _copy_evidence_requirement: the row
\* saved for a template node, with a new id, the template node's id and
\* the copy of the parent
copy_node(node, parent_copy, id) ==
    [id |-> id, kind |-> node.kind, template_id |-> node.id,
     parent |-> parent_copy]

\* _copy_framework_structure: the rows saved, in order, when the subtree of
\* a node is copied below the copy of its parent
RECURSIVE CopySubtree(_, _, _, _), CopyEach(_, _, _, _), CopyKinds(_, _, _, _, _)
CopySubtree(nodes, node, parent_copy, rows) ==
    LET id == Len(rows) + 1
    IN CopyKinds(nodes, node, ChildKinds(node.kind), id,
                 Append(rows, copy_node(node, parent_copy, id)))

CopyEach(nodes, children, parent_copy, rows) ==
    IF children = <<>> THEN rows
    ELSE CopyEach(nodes, Tail(children), parent_copy,
                  CopySubtree(nodes, Head(children), parent_copy, rows))

\* a copy that hands the children the id of the template node as parent
CopyKinds_template_parent(nodes, node, kinds, parent_copy, rows) ==
    IF kinds = <<>> THEN rows
    ELSE CopyKinds(nodes, node, Tail(kinds), parent_copy,
                   CopyEach(nodes, ActiveChildren(nodes, node, Head(kinds)),
                            node.id, rows))

CopyKinds(nodes, node, kinds, parent_copy, rows) ==
    IF kinds = <<>> THEN rows
    ELSE CopyKinds(nodes, node, Tail(kinds), parent_copy,
                   CopyEach(nodes, ActiveChildren(nodes, node, Head(kinds)),
                            parent_copy, rows))

\* the stats _copy_framework_structure returns: the rows saved of each kind
StatsOf(rows) ==
    [k \in {NodeKinds[i] : i \in DOMAIN NodeKinds} |->
        Cardinality({i \in DOMAIN rows : rows[i].kind = k})]

\* the active children of a kind of the nodes of a set
ActiveBelow(nodes, parents, kind) ==
    {n \in nodes : /\ n.kind = kind
                   /\ n.active
                   /\ \E q \in parents : n.parent = q.id}

\* validate_framework_completeness: a framework without domains and a
\* domain without categories are issues; a category without subcategories
\* and a subcategory without controls are warnings; the template is
\* complete if every level has a node, distributable if it is complete
\* and there is no issue
validate_framework_completeness(nodes) ==
    LET domains == ActiveBelow(nodes, {FrameworkNode}, "domain")
        categories == ActiveBelow(nodes, domains, "category")
        subcategories == ActiveBelow(nodes, categories, "subcategory")
        controls == ActiveBelow(nodes, subcategories, "control")
        issues ==
            (IF domains = {} THEN {<<"no_domains", 1>>} ELSE {})
            \cup {<<"no_categories", d.id>> : d \in
                     {x \in domains : ActiveBelow(nodes, {x}, "category") = {}}}
        warnings ==
            {<<"no_subcategories", c.id>> : c \in
                {x \in categories : ActiveBelow(nodes, {x}, "subcategory") = {}}}
            \cup {<<"no_controls", c.id>> : c \in
                     {x \in subcategories : ActiveBelow(nodes, {x}, "control") = {}}}
        is_complete == /\ domains # {}
                       /\ categories # {}
                       /\ subcategories # {}
                       /\ controls # {}
    IN [is_complete |-> is_complete,
        is_distributable |-> is_complete /\ issues = {},
        issues |-> issues,
        warnings |-> warnings]

NoValidation ==
    [is_complete |-> FALSE, is_distributable |-> FALSE, issues |-> {},
     warnings |-> {}]

\* the tenants a batch can name
MaxBatch == 3

\* the results before the loop: nothing called, no entry
NoBatch ==
    [called |-> FALSE, returned |-> FALSE, tenant_slugs |-> <<>>, next |-> 1,
     attempted |-> <<>>, success |-> <<>>, failed |-> <<>>, total |-> 0]

\* an iteration in which an exception ends the whole call
distribute_iteration_aborting(b, reg, outcome) ==
    LET tenant_slug == b.tenant_slugs[b.next]
    IN IF ~ActiveRow(reg, tenant_slug)
       THEN [b EXCEPT !.next = Len(b.tenant_slugs) + 1]
       ELSE IF outcome = "copied"
       THEN [b EXCEPT !.next = @ + 1,
                      !.attempted = Append(@, tenant_slug),
                      !.success = Append(@, tenant_slug)]
       ELSE [b EXCEPT !.next = Len(b.tenant_slugs) + 1,
                      !.attempted = Append(@, tenant_slug)]

\* distribute_framework_to_multiple_tenants, one iteration of the loop:
\* the active tenant with the slug is looked up and the framework copied;
\* a copy that reports failure, a tenant that is not found and any other
\* exception add the slug to failed and the loop goes on
distribute_iteration(b, reg, outcome) ==
    LET tenant_slug == b.tenant_slugs[b.next]
    IN IF ~ActiveRow(reg, tenant_slug)
       THEN [b EXCEPT !.next = @ + 1,
                      !.failed = Append(@, <<tenant_slug, "Tenant not found">>)]
       ELSE IF outcome = "copied"
       THEN [b EXCEPT !.next = @ + 1,
                      !.attempted = Append(@, tenant_slug),
                      !.success = Append(@, tenant_slug)]
       ELSE [b EXCEPT !.next = @ + 1,
                      !.attempted = Append(@, tenant_slug),
                      !.failed = Append(@, <<tenant_slug, outcome>>)]

\* what a copy for a tenant can do: succeed, report a failure, or have an
\* exception leave the try block
CopyOutcomes == {"copied", "refused", "raised"}

NoDistribution == [op |-> "none", done |-> FALSE, success |-> FALSE,
                   rows |-> <<>>, stats |-> StatsOf(<<>>),
                   validation |-> NoValidation]

\* a template with its framework only, not copied
DistIdle ==
    /\ tpl = {FrameworkNode}
    /\ dist = NoDistribution
    /\ batch = NoBatch

\* the slug lists of a batch: registered and unknown slugs, repeats allowed
BatchInputs ==
    UNION {[1..n -> Slugs \cup {Ghost}] : n \in 0..MaxBatch}

\* distribute_framework_to_multiple_tenants is called with a list
BatchCall(tenant_slugs) ==
    /\ ~batch.called
    /\ batch' = [NoBatch EXCEPT !.called = TRUE,
                                !.tenant_slugs = tenant_slugs,
                                !.total = Len(tenant_slugs)]

\* the loop handles the next slug of the list
BatchIteration(outcome) ==
    /\ batch.called
    /\ batch.next <= Len(batch.tenant_slugs)
    /\ batch' = distribute_iteration(batch, tenant, outcome)

\* the loop is over and the results are returned
BatchReturn ==
    /\ batch.called
    /\ ~batch.returned
    /\ batch.next > Len(batch.tenant_slugs)
    /\ batch' = [batch EXCEPT !.returned = TRUE]

\* a node is added to the template, level by level
AddNode(parent, kind, active) ==
    /\ ~dist.done
    /\ Cardinality(tpl) < MaxNodes
    /\ parent \in tpl
    /\ \E i \in DOMAIN ChildKinds(parent.kind) : ChildKinds(parent.kind)[i] = kind
    /\ \A n \in tpl : KindRank(n.kind) <= KindRank(kind)
    /\ tpl' = tpl \cup {[id |-> Cardinality(tpl) + 1, kind |-> kind,
                          parent |-> parent.id, active |-> active]}
    /\ UNCHANGED <<dist, batch>>

\* copy_framework_to_tenant for the template: the rows are saved in one
\* transaction; a save that raises leaves none and a failure result
DistCopy ==
    /\ ~dist.done
    /\ \E raised \in BOOLEAN :
         LET rows == CopySubtree(tpl, FrameworkNode, 0, <<>>)
         IN dist' = IF raised
                    THEN [NoDistribution EXCEPT !.op = "copy", !.done = TRUE]
                    ELSE [NoDistribution EXCEPT
                             !.op = "copy", !.done = TRUE, !.success = TRUE,
                             !.rows = rows, !.stats = StatsOf(rows)]
    /\ UNCHANGED <<tpl, batch>>

\* FrameworkViewSet.validate: GET frameworks/{id}/validate/
DistValidate ==
    /\ ~dist.done
    /\ dist' = [NoDistribution EXCEPT
                   !.op = "validate", !.done = TRUE,
                   !.validation = validate_framework_completeness(tpl)]
    /\ UNCHANGED <<tpl, batch>>

\* the template nodes of a kind
TemplateNodes(kind) == {n \in tpl : n.kind = kind}

\* the copied rows of a kind
CopiedRows(kind) == {i \in DOMAIN dist.rows : dist.rows[i].kind = kind}

\* C20: a successful copy of a template whose nodes are all active creates
\* one framework copy and as many rows of each kind as the template has
\* nodes of it, and the template id of every row is the id of a template
\* node of its kind, no two rows share one, and the row's parent is the
\* copy of that node's parent.
C20_CopyMatchesTemplate ==
    (dist.done /\ dist.success /\ \A n \in tpl : n.active) =>
        /\ Cardinality(CopiedRows("framework")) = 1
        /\ \A i \in DOMAIN NodeKinds :
              /\ Cardinality(CopiedRows(NodeKinds[i]))
                    = Cardinality(TemplateNodes(NodeKinds[i]))
              /\ dist.stats[NodeKinds[i]] = Cardinality(TemplateNodes(NodeKinds[i]))
        /\ \A i \in DOMAIN dist.rows :
              \E n \in tpl :
                 /\ n.id = dist.rows[i].template_id
                 /\ n.kind = dist.rows[i].kind
                 /\ IF n.parent = 0 THEN dist.rows[i].parent = 0
                    ELSE /\ dist.rows[i].parent \in DOMAIN dist.rows
                         /\ dist.rows[dist.rows[i].parent].template_id = n.parent
        /\ \A i, j \in DOMAIN dist.rows :
              dist.rows[i].template_id = dist.rows[j].template_id => i = j

\* a template with a node of every kind, all active, was copied
C20_Witness ==
    /\ dist.done
    /\ dist.success
    /\ \A n \in tpl : n.active
    /\ \A i \in DOMAIN NodeKinds : TemplateNodes(NodeKinds[i]) # {}
    /\ Len(dist.rows) = MaxNodes

\* the template node a copied row was made from
TemplateOf(row) == CHOOSE n \in tpl : n.id = row.template_id

\* C27: in the rows of a copy, the parent of every row but the framework's
\* is a row the same copy saved before it, of the kind above the row's,
\* and that row is the copy of the parent of the row's template node; the
\* copied tree has the shape of the template's active tree.
C27_ParentsAreCopies ==
    (dist.op = "copy" /\ dist.success) =>
        \A i \in DOMAIN dist.rows :
            LET row == dist.rows[i]
            IN /\ row.template_id \in {n.id : n \in tpl}
               /\ IF row.kind = "framework" THEN row.parent = 0
                  ELSE /\ row.parent \in 1..(i - 1)
                       /\ row.kind \in
                            {ChildKinds(dist.rows[row.parent].kind)[k] :
                               k \in DOMAIN ChildKinds(dist.rows[row.parent].kind)}
                       /\ dist.rows[row.parent].template_id
                            = TemplateOf(row).parent

\* a template with two domains was copied, and the parent of a copied
\* category is a row whose id is not the id of the category's template
\* domain
C27_Witness ==
    /\ dist.op = "copy"
    /\ dist.success
    /\ Cardinality(TemplateNodes("domain")) >= 2
    /\ \E i \in DOMAIN dist.rows :
          /\ dist.rows[i].kind = "category"
          /\ dist.rows[i].parent # TemplateOf(dist.rows[i]).parent
          /\ dist.rows[dist.rows[i].parent].template_id
                = TemplateOf(dist.rows[i]).parent

\* C21: a copy of a template that validate_framework_completeness reports
\* as not distributable is refused and writes no row.
C21_NonDistributableRefused ==
    (dist.op = "copy"
        /\ ~validate_framework_completeness(tpl).is_distributable) =>
        /\ ~dist.success
        /\ dist.rows = <<>>

\* a control that is reached from the framework through active nodes
ReachableControls ==
    ActiveBelow(tpl,
        ActiveBelow(tpl,
            ActiveBelow(tpl, ActiveBelow(tpl, {FrameworkNode}, "domain"),
                        "category"),
            "subcategory"),
        "control")

\* C22: the validation reports a template as distributable exactly when
\* it has a domain and a control reachable through domain, category,
\* subcategory and control; a domain without categories, a category
\* without subcategories and a subcategory without controls do not by
\* themselves make it non-distributable.
C22_DistributableIffChain ==
    dist.op = "validate" =>
        (dist.validation.is_distributable
            <=> /\ ActiveBelow(tpl, {FrameworkNode}, "domain") # {}
                /\ ReachableControls # {})

\* how often a slug occurs in a list of slugs
Occurrences(list, slug) == Cardinality({i \in DOMAIN list : list[i] = slug})

\* the slugs of the failed entries of a batch
FailedSlugs == [i \in DOMAIN batch.failed |-> batch.failed[i][1]]

\* C23: when distribute_framework_to_multiple_tenants returns, the copy
\* was attempted for every active tenant of the input list, whatever the
\* copies for the others did, and every entry of the input list has
\* exactly one entry in the result, among the successes or among the
\* failures.
C23_EveryTenantOnce ==
    batch.returned =>
        /\ batch.total = Len(batch.tenant_slugs)
        /\ Len(batch.success) + Len(batch.failed) = batch.total
        /\ \A slug \in Slugs \cup {Ghost} :
              /\ Occurrences(batch.success, slug)
                    + Occurrences(FailedSlugs, slug)
                    = Occurrences(batch.tenant_slugs, slug)
              /\ ActiveRow(tenant, slug) =>
                    Occurrences(batch.attempted, slug)
                      = Occurrences(batch.tenant_slugs, slug)

\* a batch of distinct slugs returned after the copy for its first tenant
\* raised, its second tenant was not found and its third was copied
C23_Witness ==
    /\ batch.returned
    /\ Len(batch.tenant_slugs) = Cardinality(Slugs \cup {Ghost})
    /\ \A i, j \in DOMAIN batch.tenant_slugs :
          batch.tenant_slugs[i] = batch.tenant_slugs[j] => i = j
    /\ batch.failed[1][2] = "raised"
    /\ batch.failed[2][2] = "Tenant not found"
    /\ Len(batch.success) = 1

\* ------------------------------------------------------------------------
\* Subscribing to frameworks: tenant_management/views.py, serializers.py
\* ------------------------------------------------------------------------

\* the subscribe requests made of a tenant
MaxSubscribes == 2

\* the framework templates a tenant can subscribe to
PublishedFrameworks == {"F1", "F2", "F3"}

\* _copy_control: the CompanyControl saved for a template control
_copy_control(customization_level) ==
    [can_customize |-> copy_can_customize(customization_level),
     is_customized |-> FALSE,
     custom_title |-> None,
     custom_description |-> None,
     custom_objective |-> None,
     custom_procedures |-> None]

\* copy_framework_to_tenant as its callers see it: the framework copied
\* with its control at a level, by the function that called it
FrameworkCopy(fw, customization_level, by) ==
    [fw |-> fw, customization_level |-> customization_level, by |-> by,
     control |-> _copy_control(customization_level)]

\* a request that carries no customization_level
NoLevel == ""

NoSubscribeCall ==
    [op |-> "none", fw |-> "", requested |-> NoLevel, status |-> 0, error |-> "",
     first |-> 1]

\* a tenant awaiting payment, nothing copied
Subscriber(code) ==
    [plan |-> code, active |-> FALSE, subscriptions |-> {}, copies |-> <<>>,
     calls |-> 0, last |-> NoSubscribeCall]

NoSubscriber == Subscriber("")

\* FrameworkSubscribeSerializer: customization_level defaults to
\* CONTROL_LEVEL
validated_level(requested) ==
    IF requested = NoLevel THEN "CONTROL_LEVEL" ELSE requested

\* FrameworkSubscribeSerializer.validate: the error of a request, "" if
\* there is none
validate(s, fw, requested) ==
    IF fw \in s.subscriptions THEN "already subscribed"
    ELSE IF plan_row(s.plan).max_frameworks > 0
            /\ Cardinality(s.subscriptions) >= plan_row(s.plan).max_frameworks
    THEN "limit reached"
    ELSE IF validated_level(requested) = "FULL"
            /\ ~plan_row(s.plan).can_create_custom_frameworks
    THEN "full not allowed"
    ELSE ""

\* activate_tenant_with_framework from step 4.5 on, schema and tables
\* created: the tenant is set ACTIVE and the framework is copied; no
\* FrameworkSubscription is created
activate(s, fw, customization_level, copy_ok) ==
    [s EXCEPT !.active = TRUE,
              !.copies = IF copy_ok
                         THEN Append(@, FrameworkCopy(fw, customization_level,
                                                      "activate"))
                         ELSE @,
              !.last = [NoSubscribeCall EXCEPT
                           !.op = "activate", !.fw = fw,
                           !.requested = customization_level,
                           !.status = IF copy_ok THEN 200 ELSE 400,
                           !.first = Len(s.copies) + 1]]

\* TenantViewSet.subscribe: the request is validated, the framework is
\* copied at the level the plan enforces, then serializer.save() runs
\* FrameworkSubscribeSerializer.create, which copies the framework again at
\* the validated level of the request and creates the subscription
subscribe(s, fw, requested, view_copy_ok, create_copy_ok) ==
    LET call == [NoSubscribeCall EXCEPT
                    !.op = "subscribe", !.fw = fw, !.requested = requested,
                    !.first = Len(s.copies) + 1]
        refused(error) ==
            [s EXCEPT !.calls = @ + 1,
                      !.last = [call EXCEPT !.status = 400, !.error = error]]
        enforced == enforced_level(s.plan,
                        IF requested = NoLevel THEN "FULL" ELSE requested)
        view_copy == FrameworkCopy(fw, enforced, "subscribe")
        create_copy == FrameworkCopy(fw, validated_level(requested), "create")
    IN IF ~s.active THEN refused("not active")
       ELSE IF validate(s, fw, requested) # ""
       THEN refused(validate(s, fw, requested))
       ELSE IF ~view_copy_ok THEN refused("distribution failed")
       ELSE IF ~create_copy_ok
       THEN [refused("failed to copy") EXCEPT
                !.copies = Append(@, view_copy)]
       ELSE [s EXCEPT !.calls = @ + 1,
                      !.copies = @ \o <<view_copy, create_copy>>,
                      !.subscriptions = @ \cup {fw},
                      !.last = [call EXCEPT !.status = 200]]

\* activate_tenant_with_framework for the tenant awaiting payment
SbActivate(fw, customization_level, copy_ok) ==
    /\ ~sb.active
    /\ sb' = activate(sb, fw, customization_level, copy_ok)

\* POST /api/v2/admin/tenants/{slug}/subscribe/
SbSubscribe(fw, requested, view_copy_ok, create_copy_ok) ==
    /\ sb.calls < MaxSubscribes
    /\ sb' = subscribe(sb, fw, requested, view_copy_ok, create_copy_ok)

\* the copies the last call made
LastCopies == {i \in DOMAIN sb.copies : i >= sb.last.first}

\* C26: after a successful subscribe every control copied for the
\* framework has the can_customize of the level the plan enforces on the
\* request, so that no control copied for a BASIC tenant has can_customize
\* true.
C26_SubscribeCopiesAtEnforcedLevel ==
    (sb.last.op = "subscribe" /\ sb.last.status = 200) =>
        /\ \A i \in LastCopies :
              sb.copies[i].control.can_customize
                = copy_can_customize(
                     enforced_level(sb.plan,
                        IF sb.last.requested = NoLevel THEN "FULL"
                        ELSE sb.last.requested))
        /\ sb.plan = "BASIC" =>
              \A i \in LastCopies : ~sb.copies[i].control.can_customize

\* C28: every control copied at a customization level has can_customize
\* true exactly when the level is CONTROL_LEVEL or FULL, is not customized
\* and has no custom title, description, objective or procedures.
C28_CopiedControlFields ==
    \A i \in DOMAIN sb.copies :
        LET copy == sb.copies[i]
        IN /\ copy.control.can_customize
                <=> copy.customization_level \in {"CONTROL_LEVEL", "FULL"}
           /\ copy.customization_level = "VIEW_ONLY"
                => ~copy.control.can_customize
           /\ ~copy.control.is_customized
           /\ copy.control.custom_title = None
           /\ copy.control.custom_description = None
           /\ copy.control.custom_objective = None
           /\ copy.control.custom_procedures = None

\* the tenant holds a copy made at each of the three levels
C28_Witness ==
    \A level \in CustomizationLevels :
        \E i \in DOMAIN sb.copies :
            /\ sb.copies[i].customization_level = level
            /\ sb.copies[i].control.can_customize = (level # "VIEW_ONLY")

\* the frameworks the tenant's schema holds a copy of
CopiedFrameworks == {sb.copies[i].fw : i \in DOMAIN sb.copies}

\* C30: for a tenant whose plan has a framework limit above zero, the
\* frameworks copied into its schema by activate and subscribe calls are
\* never more than the limit, and neither are the copies.
C30_CopiesWithinLimit ==
    plan_row(sb.plan).max_frameworks > 0 =>
        /\ Cardinality(CopiedFrameworks) <= plan_row(sb.plan).max_frameworks
        /\ Len(sb.copies) <= plan_row(sb.plan).max_frameworks

\* ------------------------------------------------------------------------
\* Registering a tenant connection: tenant_management/tenant_utils.py
\* ------------------------------------------------------------------------

\* the threads that call add_tenant_database_to_django
Connectors == {"c1", "c2"}

NoConnect == [pc |-> "idle", slug |-> None, tested |-> FALSE]

\* no call in progress, no connection tested
NoConnecting == [call |-> [c \in Connectors |-> NoConnect], passed |-> {}]

\* add_tenant_database_to_django up to the test: a registered alias is
\* returned at once; otherwise the entry is put into connections.databases
\* and the test query is next
ConnRegister(c, slug) ==
    /\ conn.call[c].pc = "idle"
    /\ IF Registered(databases, connection_name(slug))
       THEN /\ conn' = [conn EXCEPT !.call[c] =
                  [pc |-> "returned", slug |-> slug,
                   tested |-> slug \in conn.passed]]
            /\ UNCHANGED databases
       ELSE /\ databases' = databases \cup {db_config(slug)}
            /\ conn' = [conn EXCEPT !.call[c] =
                  [pc |-> "testing", slug |-> slug, tested |-> FALSE]]

\* add_tenant_database_to_django, the test: SELECT 1 on the new connection;
\* when it fails the entry is deleted and the exception raised again
ConnTest(c, test_ok) ==
    /\ conn.call[c].pc = "testing"
    /\ LET slug == conn.call[c].slug
       IN IF test_ok
          THEN /\ conn' = [conn EXCEPT !.call[c].pc = "returned",
                                       !.call[c].tested = TRUE,
                                       !.passed = @ \cup {slug}]
               /\ UNCHANGED databases
          ELSE /\ databases' = databases \ {db_config(slug)}
               /\ conn' = [conn EXCEPT !.call[c].pc = "raised",
                                       !.passed = @ \ {slug}]

\* the caller has its answer and goes on
ConnDone(c) ==
    /\ conn.call[c].pc \in {"returned", "raised"}
    /\ conn' = [conn EXCEPT !.call[c] = NoConnect]
    /\ UNCHANGED databases

\* C29: add_tenant_database_to_django returns the connection name only
\* after a test query on the tenant's connection has succeeded, and the
\* registry keeps no connection whose test has failed: a registered
\* connection has passed its test or is being tested.
C29_SuccessOnlyAfterTest ==
    /\ \A c \in Connectors :
          conn.call[c].pc = "returned" => conn.call[c].tested
    /\ \A slug \in Slugs :
          Registered(databases, connection_name(slug)) =>
              \/ slug \in conn.passed
              \/ \E c \in Connectors :
                    conn.call[c].pc = "testing" /\ conn.call[c].slug = slug

\* ------------------------------------------------------------------------
\* Specifications
\* ------------------------------------------------------------------------

\* nested tenant_context scopes on one thread
\* no provisioning call is running
ProvIdle ==
    /\ pg_schemas = {schema_name(x) : x \in Provisioned(tenant)}
    /\ subs = {}
    /\ proc = [p \in Calls |-> IdleCall]
    /\ cache = [s \in Slugs |-> NoEntry]

\* no customization request has been made
CzIdle ==
    /\ cz_plan = "PROFESSIONAL"
    /\ cz_control = NoControl
    /\ cz_last = NoCustomize

\* no membership is stored and no request was authorized
AzIdle ==
    /\ memberships = [s \in Slugs |-> NoMembership]
    /\ az_last = NoAuthorization

AuxIdle ==
    /\ CzIdle
    /\ mw_last = NoAdmission
    /\ AzIdle
    /\ rt_last = NoRouting
    /\ rp = [s \in Slugs |-> NoRuns]
    /\ DistIdle
    /\ sb = NoSubscriber
    /\ conn = NoConnecting

InitScope ==
    /\ ScopeInit
    /\ tenant = [s \in Slugs |-> ActiveRow0]
    /\ databases = {}
    /\ ThreadInit
    /\ ProvIdle
    /\ AuxIdle

notScopeVars == <<threadVars, storeVars, tenant, provVars, auxVars>>

NextScope ==
    \/ (\E slug \in SlugInputs : ScopeEnter(slug)) /\ UNCHANGED notScopeVars
    \/ ScopeBodyReturns /\ UNCHANGED notScopeVars
    \/ ScopeBodyRaises /\ UNCHANGED notScopeVars
    \/ ScopeCatch /\ UNCHANGED notScopeVars

SpecScope == InitScope /\ [][NextScope]_vars

\* worker threads serving requests for tenants in every registry state
InitThreads ==
    /\ tenant \in ThreadWorlds
    /\ databases = {db_config(s) : s \in Provisioned(tenant)}
    /\ ThreadInit
    /\ ProvIdle
    /\ AuxIdle
    /\ ScopeInit
    /\ sc_cv = None
    /\ sc_rq = None

NextThreads ==
    \E t \in Threads :
        \/ (\E rq \in Requests : Arrive(t, rq)) /\ UNCHANGED <<scopeVars, provVars, auxVars>>
        \/ AdminWrapper(t) /\ UNCHANGED <<scopeVars, provVars, auxVars>>
        \/ ViewGetsTenant(t) /\ UNCHANGED <<scopeVars, provVars, auxVars>>
        \/ ViewReturns(t) /\ UNCHANGED <<scopeVars, provVars, auxVars>>
        \/ ViewRaises(t) /\ UNCHANGED <<scopeVars, provVars, auxVars>>
        \/ Respond(t) /\ UNCHANGED <<scopeVars, provVars, auxVars>>

SpecThreads == InitThreads /\ [][NextThreads]_vars

\* worker threads reading and writing tenant-scoped rows of two provisioned
\* tenants, in a process that registered any of their connections
InitIsolation ==
    /\ tenant = [s \in Slugs |-> ActiveRow0]
    /\ databases \in SUBSET {db_config(s) : s \in Provisioned(tenant)}
    /\ ThreadInit
    /\ ProvIdle
    /\ AuxIdle
    /\ ScopeInit
    /\ sc_cv = None
    /\ sc_rq = None

NextIsolation ==
    \E t \in Threads :
        \/ (\E rq \in HeaderRequests : Arrive(t, rq)) /\ UNCHANGED <<scopeVars, provVars, auxVars>>
        \/ AdminWrapper(t) /\ UNCHANGED <<scopeVars, provVars, auxVars>>
        \/ ViewWrites(t) /\ UNCHANGED <<scopeVars, provVars, auxVars>>
        \/ ViewReads(t) /\ UNCHANGED <<scopeVars, provVars, auxVars>>
        \/ ViewReturns(t) /\ UNCHANGED <<scopeVars, provVars, auxVars>>
        \/ ViewRaises(t) /\ UNCHANGED <<scopeVars, provVars, auxVars>>
        \/ Respond(t) /\ UNCHANGED <<scopeVars, provVars, auxVars>>

SpecIsolation == InitIsolation /\ [][NextIsolation]_vars

\* the thread state of a process no request is running in
notProvVars == <<scopeVars, threadVars, next_id, auxVars>>

\* a tenant from its record to its activation, with two activation calls
\* and the operations on the tenant row
InitProv ==
    /\ tenant = [s \in Slugs |-> NoTenant]
    /\ databases = {}
    /\ ThreadInit
    /\ ProvIdle
    /\ AuxIdle
    /\ ScopeInit
    /\ sc_cv = None
    /\ sc_rq = None

NextProv ==
    \/ GetCached /\ UNCHANGED notProvVars
    \/ (\E plan \in ProvPlans : CreateTenantRecord(plan)) /\ UNCHANGED notProvVars
    \/ DeletePending /\ UNCHANGED notProvVars
    \/ Suspend /\ UNCHANGED notProvVars
    \/ Reactivate /\ UNCHANGED notProvVars
    \/ Destroy /\ UNCHANGED notProvVars
    \/ (\E value \in StatusChoices : Update(value)) /\ UNCHANGED notProvVars
    \/ \E p \in Activations :
        \/ (\E fw \in PublishedFrameworks : ActivateGetTenant(p, fw)) /\ UNCHANGED notProvVars
        \/ ActivateCreateSchema(p) /\ UNCHANGED notProvVars
        \/ ActivateDjangoConnection(p) /\ UNCHANGED notProvVars
        \/ ActivateMigrations(p) /\ UNCHANGED notProvVars
        \/ ActivateSetActive(p) /\ UNCHANGED notProvVars
        \/ CopyBegin(p) /\ UNCHANGED notProvVars
        \/ CopyBody(p) /\ UNCHANGED notProvVars
        \/ CopyEnd(p) /\ UNCHANGED notProvVars
        \/ ActivateFinalize(p) /\ UNCHANGED notProvVars
        \/ ActivateExcept(p) /\ UNCHANGED notProvVars

SpecProv == InitProv /\ [][NextProv]_vars

\* the first activation of a tenant and two subscribe calls
InitCopy ==
    /\ tenant = [s \in Slugs |-> IF s = Prov THEN PendingTenant("PROFESSIONAL")
                                 ELSE NoTenant]
    /\ databases = {}
    /\ ThreadInit
    /\ ProvIdle
    /\ AuxIdle
    /\ ScopeInit
    /\ sc_cv = None
    /\ sc_rq = None

NextCopy ==
    \/ (\E fw \in PublishedFrameworks : ActivateGetTenant("a1", fw)) /\ UNCHANGED notProvVars
    \/ ActivateCreateSchema("a1") /\ UNCHANGED notProvVars
    \/ ActivateDjangoConnection("a1") /\ UNCHANGED notProvVars
    \/ ActivateMigrations("a1") /\ UNCHANGED notProvVars
    \/ ActivateSetActive("a1") /\ UNCHANGED notProvVars
    \/ ActivateFinalize("a1") /\ UNCHANGED notProvVars
    \/ ActivateExcept("a1") /\ UNCHANGED notProvVars
    \/ \E p \in Subscribes \cup {"a1"} :
        \/ CopyBegin(p) /\ UNCHANGED notProvVars
        \/ CopyBody(p) /\ UNCHANGED notProvVars
        \/ CopyEnd(p) /\ UNCHANGED notProvVars
    \/ \E p \in Subscribes :
        \/ (\E fw \in PublishedFrameworks : SubscribeStart(p, fw)) /\ UNCHANGED notProvVars
        \/ SubscribeSave(p) /\ UNCHANGED notProvVars
        \/ SubscribeCreate(p) /\ UNCHANGED notProvVars

SpecCopy == InitCopy /\ [][NextCopy]_vars


\* everything but the customization state
notCzVars ==
    <<scopeVars, threadVars, storeVars, tenant, provVars, mw_last, azVars,
      rt_last, rp, distVars, sb, conn>>

\* a tenant on any plan, a control copied for it, plan changes and
\* customize requests
InitCustomize ==
    /\ tenant = [s \in Slugs |-> ActiveRow0]
    /\ databases = {}
    /\ ThreadInit
    /\ ProvIdle
    /\ ScopeInit
    /\ sc_cv = None
    /\ sc_rq = None
    /\ cz_plan \in PlanCodes
    /\ cz_control = NoControl
    /\ cz_last = NoCustomize
    /\ mw_last = NoAdmission
    /\ AzIdle
    /\ rt_last = NoRouting
    /\ rp = [s \in Slugs |-> NoRuns]
    /\ DistIdle
    /\ sb = NoSubscriber
    /\ conn = NoConnecting

NextCustomize ==
    \/ (\E requested \in CustomizationLevels : CzCopy(requested)) /\ UNCHANGED notCzVars
    \/ (\E code \in PlanCodes : CzChangePlan(code)) /\ UNCHANGED notCzVars
    \/ (\E fields \in SUBSET RequestFields : CzCustomize(fields)) /\ UNCHANGED notCzVars

SpecCustomize == InitCustomize /\ [][NextCustomize]_vars


\* everything but the registry and the admission record
notMwVars ==
    <<scopeVars, threadVars, storeVars, provVars, czVars, azVars, rt_last, rp,
      distVars, sb, conn>>

\* any registry, any request
InitAdmission ==
    /\ tenant \in [Slugs -> RegistryRows]
    /\ databases = {}
    /\ ThreadInit
    /\ ProvIdle
    /\ ScopeInit
    /\ sc_cv = None
    /\ sc_rq = None
    /\ CzIdle
    /\ mw_last = NoAdmission
    /\ AzIdle
    /\ rt_last = NoRouting
    /\ rp = [s \in Slugs |-> NoRuns]
    /\ DistIdle
    /\ sb = NoSubscriber
    /\ conn = NoConnecting

NextAdmission ==
    \/ (\E rq \in Requests : MwProcessRequest(rq)) /\ UNCHANGED notMwVars

SpecAdmission == InitAdmission /\ [][NextAdmission]_vars


\* everything but the memberships and the authorization record
notAzVars ==
    <<scopeVars, threadVars, storeVars, tenant, provVars, czVars, mw_last,
      rt_last, rp, distVars, sb, conn>>

\* active tenants, a user with any membership in each, requests of the user
InitAuthorization ==
    /\ tenant = [s \in Slugs |-> ActiveRow0]
    /\ databases = {}
    /\ ThreadInit
    /\ ProvIdle
    /\ ScopeInit
    /\ sc_cv = None
    /\ sc_rq = None
    /\ CzIdle
    /\ mw_last = NoAdmission
    /\ AzIdle
    /\ rt_last = NoRouting
    /\ rp = [s \in Slugs |-> NoRuns]
    /\ DistIdle
    /\ sb = NoSubscriber
    /\ conn = NoConnecting

NextAuthorization ==
    \/ (\E user \in Users, s \in Slugs \cup {None} : AzProcessRequest(user, s))
          /\ UNCHANGED notAzVars
    \/ (\E s \in Slugs, row \in MembershipRows : AzSetMembership(s, row))
          /\ UNCHANGED notAzVars

SpecAuthorization == InitAuthorization /\ [][NextAuthorization]_vars


\* everything but the connection registry and the routing record
notRtVars ==
    <<scopeVars, th_cv, th_tl, th_pc, th_req, th_status, th_how, th_set,
      last_get, last_read, tables, store, next_id, tenant, provVars,
      czVars, mw_last, azVars, rp, distVars, sb, conn>>

\* any set of registered tenant connections, any question
InitRouting ==
    /\ tenant = [s \in Slugs |-> ActiveRow0]
    /\ ThreadInit
    /\ databases \in SUBSET {db_config(s) : s \in Slugs}
    /\ ProvIdle
    /\ ScopeInit
    /\ sc_cv = None
    /\ sc_rq = None
    /\ AuxIdle

NextRouting ==
    \/ (\E a \in AppLabels, c \in RouterContexts : RouteRead(a, c))
          /\ UNCHANGED notRtVars
    \/ (\E a \in AppLabels, c \in RouterContexts : RouteWrite(a, c))
          /\ UNCHANGED notRtVars
    \/ (\E db \in MigrateAliases, a \in AppLabels : RouteMigrate(db, a))
          /\ UNCHANGED notRtVars

SpecRouting == InitRouting /\ [][NextRouting]_vars

\* everything but the schemas, connections, tables and the runs
notRpVars ==
    <<scopeVars, threadVars, store, next_id, tenant, subs, proc, cache,
      czVars, mw_last, azVars, rt_last, distVars, sb, conn>>

\* two tenants awaiting payment; each is provisioned twice
InitReprovision ==
    /\ tenant = [s \in Slugs |-> PendingTenant("PROFESSIONAL")]
    /\ databases = {}
    /\ ThreadInit
    /\ ProvIdle
    /\ ScopeInit
    /\ sc_cv = None
    /\ sc_rq = None
    /\ AuxIdle

NextReprovision ==
    \/ (\E s \in Slugs : RpConnectFails(s)) /\ UNCHANGED notRpVars
    \/ (\E s \in Slugs : RpCreateSchema(s)) /\ UNCHANGED notRpVars
    \/ (\E s \in Slugs : RpAddConnection(s)) /\ UNCHANGED notRpVars
    \/ (\E s \in Slugs : RpCreateTables(s)) /\ UNCHANGED notRpVars

SpecReprovision == InitReprovision /\ [][NextReprovision]_vars

\* everything but the template and the result of its copy
notDistVars ==
    <<scopeVars, threadVars, storeVars, tenant, provVars, czVars, mw_last,
      azVars, rt_last, rp, sb, conn>>

\* a template is built and copied to an active tenant
InitDistribute ==
    /\ tenant = [s \in Slugs |-> ActiveRow0]
    /\ databases = {}
    /\ ThreadInit
    /\ ProvIdle
    /\ ScopeInit
    /\ sc_cv = None
    /\ sc_rq = None
    /\ AuxIdle

NextDistribute ==
    \/ (\E parent \in tpl, i \in DOMAIN NodeKinds, active \in BOOLEAN :
          AddNode(parent, NodeKinds[i], active)) /\ UNCHANGED notDistVars
    \/ DistCopy /\ UNCHANGED notDistVars
    \/ DistValidate /\ UNCHANGED notDistVars

SpecDistribute == InitDistribute /\ [][NextDistribute]_vars

\* the registry states a batch can find: each tenant active or suspended,
\* cancelled, awaiting payment or absent
BatchWorlds ==
    [Slugs -> {ActiveRow0, SuspendedTenant(ActiveRow0),
               CancelledTenant(ActiveRow0), PendingTenant("BASIC"), NoTenant}]

\* one template is distributed to a list of tenants
InitBatch ==
    /\ tenant \in BatchWorlds
    /\ databases = {}
    /\ ThreadInit
    /\ ProvIdle
    /\ ScopeInit
    /\ sc_cv = None
    /\ sc_rq = None
    /\ AuxIdle

NextBatch ==
    \/ (\E tenant_slugs \in BatchInputs : BatchCall(tenant_slugs))
          /\ UNCHANGED <<notDistVars, tpl, dist>>
    \/ (\E outcome \in CopyOutcomes : BatchIteration(outcome))
          /\ UNCHANGED <<notDistVars, tpl, dist>>
    \/ BatchReturn /\ UNCHANGED <<notDistVars, tpl, dist>>

SpecBatch == InitBatch /\ [][NextBatch]_vars

\* everything but the subscriber
notSbVars ==
    <<scopeVars, threadVars, storeVars, tenant, provVars, czVars, mw_last,
      azVars, rt_last, rp, distVars, conn>>

\* a tenant of each plan is activated and subscribes to frameworks
InitSubscribe ==
    /\ tenant = [s \in Slugs |-> PendingTenant("PROFESSIONAL")]
    /\ databases = {}
    /\ ThreadInit
    /\ ProvIdle
    /\ ScopeInit
    /\ sc_cv = None
    /\ sc_rq = None
    /\ CzIdle
    /\ mw_last = NoAdmission
    /\ AzIdle
    /\ rt_last = NoRouting
    /\ rp = [s \in Slugs |-> NoRuns]
    /\ DistIdle
    /\ conn = NoConnecting
    /\ \E code \in PlanCodes : sb = Subscriber(code)

NextSubscribe ==
    \/ (\E fw \in PublishedFrameworks, level \in CustomizationLevels,
            copy_ok \in BOOLEAN : SbActivate(fw, level, copy_ok))
          /\ UNCHANGED notSbVars
    \/ (\E fw \in PublishedFrameworks, requested \in CustomizationLevels \cup {NoLevel},
            view_copy_ok \in BOOLEAN, create_copy_ok \in BOOLEAN :
              SbSubscribe(fw, requested, view_copy_ok, create_copy_ok))
          /\ UNCHANGED notSbVars

SpecSubscribe == InitSubscribe /\ [][NextSubscribe]_vars

\* everything but the connection registry and the calls that fill it
notConnVars ==
    <<scopeVars, threadVars, tables, store, next_id, tenant, provVars, czVars,
      mw_last, azVars, rt_last, rp, distVars, sb>>

\* two threads register the connections of two tenants
InitConnect ==
    /\ tenant = [s \in Slugs |-> PendingTenant("PROFESSIONAL")]
    /\ databases = {}
    /\ ThreadInit
    /\ ProvIdle
    /\ ScopeInit
    /\ sc_cv = None
    /\ sc_rq = None
    /\ AuxIdle

NextConnect ==
    \/ (\E c \in Connectors, slug \in Slugs : ConnRegister(c, slug))
          /\ UNCHANGED notConnVars
    \/ (\E c \in Connectors, test_ok \in BOOLEAN : ConnTest(c, test_ok))
          /\ UNCHANGED notConnVars
    \/ (\E c \in Connectors : ConnDone(c)) /\ UNCHANGED notConnVars

SpecConnect == InitConnect /\ [][NextConnect]_vars

====
